---- MODULE Spec2Model ----
(***************************************************************************)
(* Model of the FAB_LED strip driver (src/FAB_LED.h): the pixel format     *)
(* tags, the begin()/send()/end() session of avrBitbangLedStrip, the       *)
(* format conversion of send<pixelClassF>, the packed 16-bit send, the     *)
(* remapped / palette send, the pixel packing and timing macros, and the   *)
(* bit generation of sendBytes() on one, two and eight lines and on SPI.   *)
(*                                                                         *)
(* Memory is modelled at byte level: a pixel array is the sequence of its  *)
(* bytes in memory order, a field is read at the offset the struct gives   *)
(* it.  What reaches the bit-generation layer is recorded as the list of   *)
(* sendBytes() calls of the last operation (variable sent).  What one      *)
(* sendBytes() call does to the pins is recorded as a sequence of bit      *)
(* periods, each the sequence of its pin writes and delays in CPU cycles   *)
(* (variable trace).  SpecStrip follows a caller of the public methods     *)
(* down to the pins, trace then being the log of all its calls; SpecPeer   *)
(* interleaves the sessions of two drivers (variable peer), which share    *)
(* the interrupt flag.  SpecForward sends the same pixels once converted   *)
(* one at a time and once as a native array; SpecRemapLong adds to the     *)
(* remapped sends those of 256 positions and more.                         *)
(***************************************************************************)
EXTENDS Integers, Sequences, FiniteSets, TLC

----------------------------------------------------------------------------
(* Bounds of the model *)

\* longest pixel array handed to one send call
MaxPixels == 2
\* most pixels sent between two end() calls
MaxSession == 3
\* bytes of the palette index buffer
BufferBytes == 2
\* longest duration converted to cycles, in ns
MaxNs == 1600
\* longest byte array handed to the one-line bit generators
MaxWireBytes == 2
\* most pixels of a bit-packed buffer sized with ARRAY_SIZE
MaxArrayPixels == 24
\* calls of public methods a caller makes in one behaviour
MaxCalls == 4
\* send calls a caller makes in one session
MaxSends == 2

----------------------------------------------------------------------------
(* Integer helpers *)

UINT8 == 256
UINT16 == 65536

BoolToBit(c) == IF c THEN 1 ELSE 0

\* C's bitwise & on non-negative integers
RECURSIVE BitAnd(_, _)
BitAnd(a, b) ==
    IF a = 0 \/ b = 0 THEN 0
    ELSE (a % 2) * (b % 2) + 2 * BitAnd(a \div 2, b \div 2)

\* C's bitwise | on non-negative integers
RECURSIVE BitOr(_, _)
BitOr(a, b) ==
    IF a = 0 THEN b
    ELSE IF b = 0 THEN a
    ELSE BoolToBit(a % 2 = 1 \/ b % 2 = 1) + 2 * BitOr(a \div 2, b \div 2)

\* C's >> on non-negative integers
RECURSIVE ShiftRight(_, _)
ShiftRight(a, n) == IF n = 0 THEN a ELSE ShiftRight(a \div 2, n - 1)

\* 1 << n
RECURSIVE Pow2(_)
Pow2(n) == IF n = 0 THEN 1 ELSE 2 * Pow2(n - 1)

\* the int value of a C comparison
BoolToInt(c) == BoolToBit(c)

\* array[k] of a C array held as a sequence
At(array, k) == array[k + 1]

\* the array with array[k] = v
Store(array, k, v) == [array EXCEPT ![k + 1] = v]

\* the n bytes at array[from .. from+n-1]
Slice(array, from, n) == [k \in 1..n |-> array[from + k]]

RECURSIVE Flatten(_)
Flatten(chunks) ==
    IF chunks = <<>> THEN <<>> ELSE Head(chunks) \o Flatten(Tail(chunks))

----------------------------------------------------------------------------
(* Pixel format tags, FAB_LED.h 48-64 *)

PT_RGB == 32
PT_GRB == 64
PT_BGR == 128
PT_COL == 224
PT_XXXW == 1
PT_BXXX == 2
PT_XBYT == 3

\* ((v) & PT_XBYT != 0) ? 4 : 3 -- in C, != binds tighter than &, so the
\* macro tests v & (PT_XBYT != 0), that is v & 1
PT_BYTES_PER_PIXEL(v) ==
    IF BitAnd(v, BoolToInt(PT_XBYT # 0)) # 0 THEN 4 ELSE 3

(* The six pixel structs, FAB_LED.h 67-117 *)

Formats == {"rgb", "grb", "bgr", "rgbw", "grbw", "hbgr"}

\* static const uint8_t type of each struct
TypeOf(f) ==
    CASE f = "rgb"  -> PT_RGB
      [] f = "grb"  -> PT_GRB
      [] f = "bgr"  -> PT_BGR
      [] f = "rgbw" -> PT_RGB + PT_XXXW
      [] f = "grbw" -> PT_GRB + PT_XXXW
      [] f = "hbgr" -> PT_BGR + PT_BXXX

\* the members of each struct in declaration order; hbgr's first byte is a
\* union of B/brightness, w/white and h/header
Layout(f) ==
    CASE f = "rgb"  -> <<{"r"}, {"g"}, {"b"}>>
      [] f = "grb"  -> <<{"g"}, {"r"}, {"b"}>>
      [] f = "bgr"  -> <<{"b"}, {"g"}, {"r"}>>
      [] f = "rgbw" -> <<{"r"}, {"g"}, {"b"}, {"w"}>>
      [] f = "grbw" -> <<{"g"}, {"r"}, {"b"}, {"w"}>>
      [] f = "hbgr" -> <<{"B", "w", "h"}, {"b"}, {"g"}, {"r"}>>

\* sizeof(struct): one byte per member
SizeOf(f) == Len(Layout(f))

HasMember(f, m) == \E k \in 1..Len(Layout(f)) : m \in Layout(f)[k]

\* byte offset of member m in struct f
Offset(f, m) == (CHOOSE k \in 1..Len(Layout(f)) : m \in Layout(f)[k]) - 1

----------------------------------------------------------------------------
(* Protocols, FAB_LED.h 186-197 *)

ONE_PORT_BITBANG == 1
TWO_PORT_SPLIT_BITBANG == 2
TWO_PORT_INTLV_BITBANG == 3
EIGHT_PORT_BITBANG == 4
ONE_PORT_PWM == 5
ONE_PORT_UART == 6
SPI_BITBANG == 7
SPI_HARDWARE == 8

Protocols == 1..8

\* the protocols sendBytes() has a case for
ImplementedProtocols ==
    {ONE_PORT_BITBANG, TWO_PORT_SPLIT_BITBANG, TWO_PORT_INTLV_BITBANG,
     EIGHT_PORT_BITBANG, SPI_BITBANG}

----------------------------------------------------------------------------
(* State *)

VARIABLES
    protocol,        \* template parameter protocol
    native,          \* template parameter pixelClass, as a format name
    F_CPU,           \* clock frequency of the build, in Hz
    chip,            \* the LED class whose timing macros fill high1 .. low0
    dataPortPin,     \* template parameter dataPortPin
    clockPortPin,    \* template parameter clockPortPin
    SREG,            \* global interrupt enable bit of the AVR status register
    oldSREG,         \* static oldSREG: the bit as saved by begin()
    pixelsDisplayed, \* static uint16_t pixelsDisplayed
    session,         \* caller's position: "idle" or "open" (inside begin..end)
    buffer,          \* the application's bit-packed palette index buffer
    sregAtBegin,     \* history: SREG when the open session's begin() was called
    sentSinceEnd,    \* history: pixels handed to send calls since the last end()
    op,              \* history: the last operation and its arguments
    pixels,          \* history: the pixels handed to send<pixelClassF> by the last operation
    sent,            \* history: the sendBytes() calls of the last operation
    frames,          \* history: the spiSoftwareSendFrame() calls of the last operation
    trace,           \* history: the port writes and delays of the sendBytes() call
                     \* followed down to the pins (bit-generation specification)
    peer             \* a second driver of another configuration: its own static
                     \* oldSREG and the caller's position in its session

vars == <<protocol, native, F_CPU, chip, dataPortPin, clockPortPin, SREG, oldSREG,
          pixelsDisplayed, session, buffer, sregAtBegin, sentSinceEnd, op, pixels,
          sent, frames, trace, peer>>

config == <<protocol, native, F_CPU, chip, dataPortPin, clockPortPin>>

\* the second driver before any of its sessions; sregIdle is history: the
\* interrupt state while no session of either driver was open yet
NoPeer == [oldSREG |-> FALSE, session |-> "idle", sregIdle |-> FALSE]

\* stripBPP = PT_BYTES_PER_PIXEL(pixelClass::type), FAB_LED.h 377
stripBPP == PT_BYTES_PER_PIXEL(TypeOf(native))

----------------------------------------------------------------------------
(* begin() / end(), FAB_LED.h 1320-1348 *)

\* for (c = 0; c < 8 * count; c++): count is uint16_t and int has 16 bits on
\* AVR, so 8 * count is computed modulo 2^16
FramePulses(count) == (8 * count) % UINT16

\* spiSoftwareSendFrame(count, high): the data line level and the number of
\* low-high pulses of the clock line
spiSoftwareSendFrame(count, high) == [data |-> high, pulses |-> FramePulses(count)]

\* (mutant) the state is saved after interrupts were disabled
BeginSavedSREG_AfterCli(sreg) == FALSE

\* oldSREG = SREG
BeginSavedSREG(sreg) == sreg

\* (mutant) begin() without the cli
BeginSREG_NoCli(sreg) == sreg

\* __builtin_avr_cli()
BeginSREG(sreg) == FALSE

\* SREG = oldSREG
EndSREG(saved, sreg) == saved

\* ++pixelsDisplayed / 2
EndFrameCount(pd) == ((pd + 1) % UINT16) \div 2

\* (mutant) end() without the reset of the counter
EndPixelsDisplayed_NoReset(pd) == (pd + 1) % UINT16

\* pixelsDisplayed = 0
EndPixelsDisplayed(pd) == 0

Begin ==
    /\ session = "idle"
    /\ session' = "open"
    /\ sregAtBegin' = SREG
    /\ op' = [name |-> "begin"]
    /\ pixels' = <<>>
    /\ sent' = <<>>
    /\ IF protocol = SPI_BITBANG
       THEN /\ frames' = <<spiSoftwareSendFrame(4, FALSE)>>
            /\ UNCHANGED <<SREG, oldSREG>>
       ELSE /\ frames' = <<>>
            /\ oldSREG' = BeginSavedSREG(SREG)
            /\ SREG' = BeginSREG(SREG)
    /\ UNCHANGED <<config, peer, buffer, trace, pixelsDisplayed, sentSinceEnd>>

End ==
    /\ session = "open"
    /\ session' = "idle"
    /\ op' = [name |-> "end", pixels |-> sentSinceEnd, counter |-> pixelsDisplayed,
              sregBefore |-> sregAtBegin]
    /\ pixels' = <<>>
    /\ sent' = <<>>
    /\ sentSinceEnd' = 0
    /\ IF protocol = SPI_BITBANG
       THEN /\ frames' = <<spiSoftwareSendFrame(EndFrameCount(pixelsDisplayed), TRUE)>>
            /\ pixelsDisplayed' = EndPixelsDisplayed(pixelsDisplayed)
            /\ UNCHANGED <<SREG, oldSREG>>
       ELSE /\ frames' = <<>>
            /\ SREG' = EndSREG(oldSREG, SREG)
            /\ UNCHANGED <<oldSREG, pixelsDisplayed>>
    /\ UNCHANGED <<config, peer, buffer, trace, sregAtBegin>>

\* begin() of the second driver, a non-SPI one: another instantiation of the
\* class template, whose static oldSREG is its own
PeerBegin ==
    /\ peer.session = "idle"
    /\ peer' = [peer EXCEPT !.session = "open", !.oldSREG = BeginSavedSREG(SREG)]
    /\ SREG' = BeginSREG(SREG)
    /\ op' = [name |-> "peerBegin"]
    /\ pixels' = <<>>
    /\ sent' = <<>>
    /\ frames' = <<>>
    /\ UNCHANGED <<config, buffer, trace, oldSREG, pixelsDisplayed, session,
                   sregAtBegin, sentSinceEnd>>

\* end() of the second driver
PeerEnd ==
    /\ peer.session = "open"
    /\ peer' = [peer EXCEPT !.session = "idle"]
    /\ SREG' = EndSREG(peer.oldSREG, SREG)
    /\ op' = [name |-> "peerEnd"]
    /\ pixels' = <<>>
    /\ sent' = <<>>
    /\ frames' = <<>>
    /\ UNCHANGED <<config, buffer, trace, oldSREG, pixelsDisplayed, session,
                   sregAtBegin, sentSinceEnd>>

\* the application enables or disables interrupts between two sessions
SetInterrupts(enable) ==
    /\ session = "idle"
    /\ SREG # enable
    /\ SREG' = enable
    /\ op' = [name |-> "interrupts"]
    /\ pixels' = <<>>
    /\ sent' = <<>>
    /\ frames' = <<>>
    /\ UNCHANGED <<config, peer, buffer, trace, oldSREG, pixelsDisplayed, session, sregAtBegin, sentSinceEnd>>

----------------------------------------------------------------------------
(* send<pixelClassF>(numPixels, array), FAB_LED.h 1350-1388 *)

\* pixelClass p = {}; then f3 = 0x00 if the native type has PT_XXXW and
\* f0 = 0xFF if it has PT_BXXX (set once, before the loop)
InitialPixel ==
    LET zero == [k \in 1..SizeOf(native) |-> 0]
        w == IF BitAnd(TypeOf(native), PT_XXXW) # 0 THEN Store(zero, 3, 0) ELSE zero
    IN  IF BitAnd(TypeOf(native), PT_BXXX) # 0 THEN Store(w, 0, 255) ELSE w

\* one iteration of the conversion loop: p after the assignments for array[i]
ConvertPixel(src, p, array, i) ==
    LET base == i * SizeOf(src)
        both == BitAnd(TypeOf(native), TypeOf(src))
        pr == Store(p, Offset(native, "r"), At(array, base + Offset(src, "r")))
        pg == Store(pr, Offset(native, "g"), At(array, base + Offset(src, "g")))
        pb == Store(pg, Offset(native, "b"), At(array, base + Offset(src, "b")))
        pw == IF BitAnd(both, PT_XXXW) # 0 THEN Store(pb, 3, At(array, base + 3)) ELSE pb
    IN  IF BitAnd(both, PT_BXXX) # 0 THEN Store(pw, 0, At(array, base)) ELSE pw

\* the sendBytes(stripBPP, &p) calls of iterations i .. numPixels-1
RECURSIVE ConvertLoop(_, _, _, _, _)
ConvertLoop(src, i, numPixels, array, p) ==
    IF i >= numPixels THEN <<>>
    ELSE LET q == ConvertPixel(src, p, array, i)
         IN  <<Slice(q, 0, stripBPP)>> \o ConvertLoop(src, i + 1, numPixels, array, q)

\* the count passed to sendBytes on the native path: numPixels * stripBPP,
\* converted to the uint16_t parameter
NativeByteCount(numPixels) == (numPixels * stripBPP) % UINT16

\* the sendBytes() calls of send<src>(numPixels, array)
TypedSendCalls(src, numPixels, array) ==
    IF TypeOf(src) = TypeOf(native)
    THEN <<Slice(array, 0, NativeByteCount(numPixels))>>
    ELSE ConvertLoop(src, 0, numPixels, array, InitialPixel)

\* (mutant) the pixels are counted under every protocol
CountPixels_EveryProtocol(pd, numPixels) == (pd + numPixels) % UINT16

\* if (protocol == SPI_BITBANG) pixelsDisplayed += numPixels
CountPixels(pd, numPixels) ==
    IF protocol = SPI_BITBANG THEN (pd + numPixels) % UINT16 ELSE pd

\* array[i] of an array of struct f, as its bytes
PixelAt(f, array, i) == Slice(array, i * SizeOf(f), SizeOf(f))

\* the typed send API: send(count, const entryPixelType * array), 562-566
SendTyped(src, numPixels, array) ==
    /\ sentSinceEnd + numPixels <= MaxSession
    /\ pixels' = [i \in 1..numPixels |-> PixelAt(src, array, i - 1)]
    /\ sent' = TypedSendCalls(src, numPixels, array)
    /\ pixelsDisplayed' = CountPixels(pixelsDisplayed, numPixels)
    /\ sentSinceEnd' = sentSinceEnd + numPixels
    /\ op' = [name |-> "send", src |-> src, count |-> numPixels, array |-> array]
    /\ frames' = <<>>
    /\ UNCHANGED <<config, peer, buffer, trace, SREG, oldSREG, session, sregAtBegin>>

\* send(count, const uint8_t * array), 550-552: bytes in the native format,
\* forwarded as send<pixelClass>(count / stripBPP, array)
RawPixelCount(count) == count \div stripBPP

SendRaw(count, array) ==
    LET numPixels == RawPixelCount(count) IN
    /\ sentSinceEnd + numPixels <= MaxSession
    /\ pixels' = <<>>
    /\ sent' = TypedSendCalls(native, numPixels, array)
    /\ pixelsDisplayed' = CountPixels(pixelsDisplayed, numPixels)
    /\ sentSinceEnd' = sentSinceEnd + numPixels
    /\ op' = [name |-> "sendRaw", count |-> count, array |-> array]
    /\ frames' = <<>>
    /\ UNCHANGED <<config, peer, buffer, trace, SREG, oldSREG, session, sregAtBegin>>

----------------------------------------------------------------------------
(* send(numPixels, const uint16_t * array, brightness), FAB_LED.h 1390-1415 *)

\* pixelClass p, with the assignments made before the loop:
\* if (type && PT_BXXX) p.b = 0xFF; if (type && PT_XXXW) p.w = 0;
\* && is the logical and, so both run for every native type.  p.w exists in
\* rgbw, grbw and hbgr only (in hbgr it is the header byte); for those types
\* every byte of p is assigned before it is sent, so p starts as zeros here.
Packed16InitialPixel ==
    LET zero == [k \in 1..SizeOf(native) |-> 0]
        pb == IF TypeOf(native) # 0 /\ PT_BXXX # 0
              THEN Store(zero, Offset(native, "b"), 255) ELSE zero
    IN  IF TypeOf(native) # 0 /\ PT_XXXW # 0
        THEN Store(pb, Offset(native, "w"), 0) ELSE pb

\* if (brightness == 0) brightness = 1
Packed16Brightness(brightness) == IF brightness = 0 THEN 1 ELSE brightness

\* the three channel assignments, each truncated to uint8_t
Packed16Pixel(p, value, brightness) ==
    LET k == Packed16Brightness(brightness)
        pr == Store(p, Offset(native, "r"), (ShiftRight(value, 11) * k) % UINT8)
        pg == Store(pr, Offset(native, "g"), (BitAnd(ShiftRight(value, 5), 63) * k) % UINT8)
    IN  Store(pg, Offset(native, "b"), (BitAnd(value, 31) * k) % UINT8)

RECURSIVE Packed16Loop(_, _, _, _, _)
Packed16Loop(i, numPixels, array, brightness, p) ==
    IF i >= numPixels THEN <<>>
    ELSE LET q == Packed16Pixel(p, At(array, i), brightness)
         IN  <<Slice(q, 0, stripBPP)>> \o Packed16Loop(i + 1, numPixels, array, brightness, q)

\* the function does not touch pixelsDisplayed
SendPacked16(numPixels, array, brightness) ==
    /\ HasMember(native, "w")
    /\ sentSinceEnd + numPixels <= MaxSession
    /\ pixels' = <<>>
    /\ sent' = Packed16Loop(0, numPixels, array, brightness, Packed16InitialPixel)
    /\ sentSinceEnd' = sentSinceEnd + numPixels
    /\ op' = [name |-> "sendPacked16", count |-> numPixels, array |-> array,
              brightness |-> brightness]
    /\ frames' = <<>>
    /\ UNCHANGED <<config, peer, buffer, trace, SREG, oldSREG, pixelsDisplayed, session, sregAtBegin>>

----------------------------------------------------------------------------
(* send<bitsPerPixel, arrayClassF, paletteClassF, mapIntF>, FAB_LED.h 1418-1454 *)

\* (mutant) fields taken most-significant group first
GET_PIXEL_MsbFirst(array, index, bitsPerPixel) ==
    BitAnd(ShiftRight(At(array, index \div (8 \div bitsPerPixel)),
                      8 - bitsPerPixel - ((index * bitsPerPixel) % 8)),
           Pow2(bitsPerPixel) - 1)

\* _GET_PIXEL(array, index, bitsPerPixel), 158-160
GET_PIXEL(array, index, bitsPerPixel) ==
    BitAnd(ShiftRight(At(array, index \div (8 \div bitsPerPixel)),
                      (index * bitsPerPixel) % 8),
           Pow2(bitsPerPixel) - 1)

\* (mutant) the field is or-ed in without clearing what it held
SET_PIXEL_NoClear(array, index, bitsPerPixel, color) ==
    LET k == index \div (8 \div bitsPerPixel)
        shift == (index * bitsPerPixel) % 8
    IN  Store(array, k, BitOr(At(array, k), color * Pow2(shift)) % UINT8)

\* _SET_PIXEL(array, index, bitsPerPixel, color), 151-155:
\* array[k] = (array[k] & ~(((1<<bpp)-1) << shift)) | color << shift, the
\* value converted to the uint8_t element
SET_PIXEL(array, index, bitsPerPixel, color) ==
    LET k == index \div (8 \div bitsPerPixel)
        shift == (index * bitsPerPixel) % 8
        mask == (Pow2(bitsPerPixel) - 1) * Pow2(shift)
        kept == At(array, k) - BitAnd(At(array, k), mask)
    IN  Store(array, k, BitOr(kept, color * Pow2(shift)) % UINT8)

\* (mutant) the number of bytes is rounded down
ARRAY_SIZE_RoundDown(numPixels, bitsPerPixel) == (numPixels \div 8) * bitsPerPixel

\* (((numPixels)+7) / 8 * (bitsPerPixel)), 136
ARRAY_SIZE(numPixels, bitsPerPixel) == ((numPixels + 7) \div 8) * bitsPerPixel

\* the element both macros access: array[index/(8/bitsPerPixel)]
PixelByte(index, bitsPerPixel) == index \div (8 \div bitsPerPixel)

\* (mutant) a count that does not fit the index type sends nothing
MapLoopBound_NothingWhenTooLong(count, width) == IF count < width THEN count ELSE 0

\* const mapIntF iMax = (const mapIntF) count; width is 2^(bits of mapIntF)
MapLoopBound(count, width) == count % width

\* (mutant) the remap table is ignored
RemapIndex_NoMap(hasMap, map, i) == i

\* const mapIntF ri = (map != NULL) ? map[i] : i
RemapIndex(hasMap, map, i) == IF hasMap THEN At(map, i) ELSE i

\* pixel = (palette != NULL) ? &palette[i] : &array[ri], as the index used
PixelIndex(hasPalette, i, ri) == IF hasPalette THEN i ELSE ri

\* the pixel sent at position i without palette
MappedPixel(f, array, hasMap, map, i) ==
    PixelAt(f, array, PixelIndex(FALSE, i, RemapIndex(hasMap, map, i)))

\* the pixel sent at position i with a palette of entries entries; junk is
\* what a read past the end of the palette yields
PalettePixel(f, palette, entries, junk, hasMap, map, i) ==
    LET pi == PixelIndex(TRUE, i, RemapIndex(hasMap, map, i))
    IN  IF pi < entries THEN PixelAt(f, palette, pi) ELSE junk

\* send(1, pixel) for each pixel of the list, in order
RECURSIVE SendEach(_, _)
SendEach(f, list) ==
    IF list = <<>> THEN <<>>
    ELSE TypedSendCalls(f, 1, Head(list)) \o SendEach(f, Tail(list))

\* palette == NULL: array holds pixels of struct f
SendMapped(f, count, array, hasMap, map, width) ==
    LET iMax == MapLoopBound(count, width)
        list == [i \in 1..iMax |-> MappedPixel(f, array, hasMap, map, i - 1)]
    IN
    /\ sentSinceEnd + iMax <= MaxSession
    /\ pixels' = list
    /\ sent' = SendEach(f, list)
    /\ pixelsDisplayed' = CountPixels(pixelsDisplayed, iMax)
    /\ sentSinceEnd' = sentSinceEnd + iMax
    /\ op' = [name |-> "sendMapped", src |-> f, count |-> count, array |-> array,
              hasMap |-> hasMap, map |-> map, width |-> width]
    /\ frames' = <<>>
    /\ UNCHANGED <<config, peer, buffer, trace, SREG, oldSREG, session, sregAtBegin>>

\* palette != NULL: array is the bit-packed index array, palette holds
\* 2^bitsPerPixel pixels of struct f
SendPalette(bitsPerPixel, f, count, array, palette, hasMap, map, width) ==
    LET iMax == MapLoopBound(count, width) IN
    \E junk \in {[k \in 1..SizeOf(f) |-> 0], [k \in 1..SizeOf(f) |-> 255]} :
    LET list == [i \in 1..iMax |->
                   PalettePixel(f, palette, Pow2(bitsPerPixel), junk, hasMap, map, i - 1)]
    IN
    /\ sentSinceEnd + iMax <= MaxSession
    /\ pixels' = list
    /\ sent' = SendEach(f, list)
    /\ pixelsDisplayed' = CountPixels(pixelsDisplayed, iMax)
    /\ sentSinceEnd' = sentSinceEnd + iMax
    /\ op' = [name |-> "sendPalette", src |-> f, bitsPerPixel |-> bitsPerPixel,
              count |-> count, array |-> array, hasMap |-> hasMap, map |-> map,
              width |-> width]
    /\ frames' = <<>>
    /\ UNCHANGED <<config, peer, buffer, trace, SREG, oldSREG, session, sregAtBegin>>

----------------------------------------------------------------------------
(* Cycles and nanoseconds, FAB_LED.h 163-169 *)

NS_PER_SEC == 1000000000
CYCLES_PER_SEC == F_CPU

\* quotient and remainder of a * b by d, by doubling over the bits of b: the
\* macros compute in uint64_t, and every intermediate value here stays below
\* 2^31 (d <= 10^9)
RECURSIVE MulDivMod(_, _, _)
MulDivMod(a, b, d) ==
    IF b = 0 THEN [q |-> 0, r |-> 0]
    ELSE LET h == MulDivMod(a, b \div 2, d)
             q2 == 2 * h.q + ((2 * h.r) \div d)
             r2 == (2 * h.r) % d
             qa == a \div d
             ra == a % d
         IN  IF b % 2 = 0 THEN [q |-> q2, r |-> r2]
             ELSE [q |-> q2 + qa + ((r2 + ra) \div d), r |-> (r2 + ra) % d]

\* (a * b + c) / d in uint64_t, for c < d
MulAddDiv(a, b, c, d) ==
    LET p == MulDivMod(a, b, d) IN p.q + ((p.r + c) \div d)

\* (mutant) the conversion rounds down
CYCLES_RoundDown(time_ns) == MulAddDiv(CYCLES_PER_SEC, time_ns, 0, NS_PER_SEC)

\* ((CYCLES_PER_SEC * (time_ns)) + NS_PER_SEC - 1ULL) / NS_PER_SEC
CYCLES(time_ns) == MulAddDiv(CYCLES_PER_SEC, time_ns, NS_PER_SEC - 1, NS_PER_SEC)

\* ((cycles) * NS_PER_SEC + CYCLES_PER_SEC-1) / CYCLES_PER_SEC
NANOSECONDS(cycles) == MulAddDiv(NS_PER_SEC, cycles, CYCLES_PER_SEC - 1, CYCLES_PER_SEC)

\* CYCLES(time_ns) of the current build, as the operation records it
ConvertTime(time_ns) ==
    /\ op' = [name |-> "cycles", time_ns |-> time_ns, cycles |-> CYCLES(time_ns),
              ns |-> NANOSECONDS(CYCLES(time_ns))]
    /\ UNCHANGED <<config, peer, buffer, trace, SREG, oldSREG, pixelsDisplayed, session,
                   sregAtBegin, sentSinceEnd, pixels, sent, frames>>

(* The timing macros of the LED classes, FAB_LED.h 1884-2094 *)

Chips == {"ws2812b", "ws2812", "apa104", "apa102"}

\* the arguments of the CYCLES() in <CHIP>_1H_CY, _1L_CY, _0H_CY and _0L_CY
TimingNs(c) ==
    CASE c = "ws2812b" -> [high1 |-> 500,  low1 |-> 125, high0 |-> 125, low0 |-> 188]
      [] c = "ws2812"  -> [high1 |-> 550,  low1 |-> 200, high0 |-> 200, low0 |-> 550]
      [] c = "apa104"  -> [high1 |-> 1210, low1 |-> 200, high0 |-> 200, low0 |-> 1210]
      [] c = "apa102"  -> [high1 |-> 0,    low1 |-> 0,   high0 |-> 0,   low0 |-> 0]

\* conversion of a cycle count to the int16_t template parameter
ToInt16(v) == ((v + 32768) % UINT16) - 32768

\* the template parameters high1, low1, high0, low0 of the driver, 349-352
high1 == ToInt16(CYCLES(TimingNs(chip).high1))
low1 == ToInt16(CYCLES(TimingNs(chip).low1))
high0 == ToInt16(CYCLES(TimingNs(chip).high0))
low0 == ToInt16(CYCLES(TimingNs(chip).low0))

\* const int sbiCycles = 2; const int cbiCycles = 2
sbiCycles == 2
cbiCycles == 2

----------------------------------------------------------------------------
(* Bit generation: what sendBytes() writes to the pins, FAB_LED.h 919-1281  *)
(*                                                                         *)
(* The pins' view of one sendBytes() call is a sequence of bit periods, a  *)
(* period being one run of the body of the innermost loop: the sequence of *)
(* its port writes and delays.  Time is counted as the source counts it:   *)
(* a port write takes 2 cycles and takes effect at its end, a delay takes  *)
(* its argument, the loop control takes an unknown number of cycles        *)
(* between two periods.                                                    *)

\* gcc turns the SET_PORT macros into sbi and cbi, 2 cycles each (272, 279)
PortWriteCycles == 2

\* SET_PORT_HIGH / SET_PORT_LOW on the data or the clock line
SET_PORT_HIGH(line) ==
    [kind |-> "pin", line |-> line, value |-> 1, cycles |-> PortWriteCycles]
SET_PORT_LOW(line) ==
    [kind |-> "pin", line |-> line, value |-> 0, cycles |-> PortWriteCycles]

\* FAB_PORT(dataPortId, val): all eight pins of the port at once
FAB_PORT(val) ==
    [kind |-> "port", line |-> "port", value |-> val, cycles |-> PortWriteCycles]

\* if (count > 0) __builtin_avr_delay_cycles(count)
DELAY_CYCLES(count) ==
    IF count > 0
    THEN <<[kind |-> "delay", line |-> "none", value |-> 0, cycles |-> count]>>
    ELSE <<>>

\* the loop counters and the bit test between two periods
LoopControl(overhead) ==
    IF overhead > 0
    THEN <<[kind |-> "loop", line |-> "none", value |-> 0, cycles |-> overhead]>>
    ELSE <<>>

\* the level of each line when sendBytes() is entered: the constructor leaves
\* the data lines low, the frame it sends under SPI leaves the clock high
InitialLevel(line) ==
    IF protocol = SPI_BITBANG /\ line = "clock" THEN 1 ELSE 0

(* onePortSoftwareSendBytes, 1246-1281 *)

\* (mutant) least significant bit first
onePortBit_LsbFirst(val, b) == BitAnd(ShiftRight(val, 7 - b), 1)

\* const bool bit = (val>>b) & 0x1
onePortBit(val, b) == BitAnd(ShiftRight(val, b), 1)

\* (mutant) the delay after the rising edge ignores the cost of the toggle
onePortHighDelay_Full(high) == high

\* the argument of the delay after the rising edge: high1 - sbiCycles or
\* high0 - sbiCycles
onePortHighDelay(high) == high - sbiCycles

\* (mutant) the pulse is inverted: the line is taken low, then left high
onePortSendBit_Inverted(bit, overhead) ==
    <<SET_PORT_LOW("data")>>
    \o DELAY_CYCLES(onePortHighDelay(IF bit # 0 THEN high1 ELSE high0))
    \o <<SET_PORT_HIGH("data")>>
    \o DELAY_CYCLES((IF bit # 0 THEN low1 ELSE low0) - cbiCycles)
    \o LoopControl(overhead)

\* the body of the bit loop
onePortSendBit(bit, overhead) ==
    IF bit # 0
    THEN <<SET_PORT_HIGH("data")>> \o DELAY_CYCLES(onePortHighDelay(high1))
         \o <<SET_PORT_LOW("data")>> \o DELAY_CYCLES(low1 - cbiCycles)
         \o LoopControl(overhead)
    ELSE <<SET_PORT_HIGH("data")>> \o DELAY_CYCLES(onePortHighDelay(high0))
         \o <<SET_PORT_LOW("data")>> \o DELAY_CYCLES(low0 - cbiCycles)
         \o LoopControl(overhead)

\* for c = 0 .. count-1, for b = 7 .. 0: iteration (c, b) is period 8c + 7 - b
onePortSoftwareSendBytes(count, array, overhead) ==
    [k \in 1..(8 * count) |->
        onePortSendBit(onePortBit(At(array, (k - 1) \div 8), 7 - ((k - 1) % 8)),
                       overhead)]

(* spiSoftwareSendBytes, 957-982 *)

\* const bool bit = (val>>b) & 0x1
spiBit(val, b) == BitAnd(ShiftRight(val, b), 1)

\* (mutant) the data line is set after the clock was raised
spiSendBit_DataAfterClock(bit) ==
    <<SET_PORT_LOW("clock"), SET_PORT_HIGH("clock"),
      IF bit # 0 THEN SET_PORT_HIGH("data") ELSE SET_PORT_LOW("data")>>

\* the body of the bit loop: clock low, data, clock high
spiSendBit(bit) ==
    <<SET_PORT_LOW("clock"),
      IF bit # 0 THEN SET_PORT_HIGH("data") ELSE SET_PORT_LOW("data"),
      SET_PORT_HIGH("clock")>>

\* for cnt = 0 .. count-1, for b = 7 .. 0; the stripBPP >= 4 branch is empty
spiSoftwareSendBytes(count, array) ==
    [k \in 1..(8 * count) |->
        spiSendBit(spiBit(At(array, (k - 1) \div 8), 7 - ((k - 1) % 8)))]

(* twoPortSoftwareSendBytes, 989-1034 *)

\* const uint16_t blockSize = (protocol == TWO_PORT_SPLIT_BITBANG) ? count/2 : count
twoPortBlockSize(count) ==
    IF protocol = TWO_PORT_SPLIT_BITBANG THEN count \div 2 ELSE count

\* const uint8_t stride, increment = stride * stripBPP
twoPortIncrement ==
    ((IF protocol = TWO_PORT_SPLIT_BITBANG THEN 1 ELSE 2) * stripBPP) % UINT8

\* the number of runs of for (pix = 0; pix < blockSize; pix += increment)
twoPortPixelRuns(count) ==
    (twoPortBlockSize(count) + twoPortIncrement - 1) \div twoPortIncrement

\* the index read for the second line: array[pos + blockSize] in split mode,
\* array[pos + stripBPP] in interleaved mode
twoPortSecondIndex(count, pos) ==
    IF protocol = TWO_PORT_SPLIT_BITBANG
    THEN pos + twoPortBlockSize(count) ELSE pos + stripBPP

\* the body of the bit loop, isbitDhigh and isbitChigh already read
twoPortSendBit(isbitDhigh, isbitChigh, overhead) ==
    (IF isbitDhigh THEN <<SET_PORT_HIGH("data")>> ELSE <<>>)
    \o (IF isbitChigh THEN <<SET_PORT_HIGH("clock")>> ELSE <<>>)
    \o (IF ~isbitDhigh
        THEN <<SET_PORT_HIGH("data")>> \o DELAY_CYCLES(high0 - sbiCycles)
             \o <<SET_PORT_LOW("data")>>
        ELSE <<>>)
    \o (IF ~isbitChigh
        THEN <<SET_PORT_HIGH("clock")>> \o DELAY_CYCLES(high0 - sbiCycles)
             \o <<SET_PORT_LOW("clock")>>
        ELSE <<>>)
    \o DELAY_CYCLES(high1 - 2 * sbiCycles)
    \o <<SET_PORT_LOW("data"), SET_PORT_LOW("clock")>>
    \o DELAY_CYCLES(low1 - 2 * cbiCycles)
    \o LoopControl(overhead)

\* the bytes the call can read: the array and what lies behind it in memory
twoPortReach(count) ==
    IF twoPortPixelRuns(count) = 0 THEN 0
    ELSE twoPortSecondIndex(count,
             (twoPortPixelRuns(count) - 1) * twoPortIncrement + stripBPP - 1) + 1

\* period k (from 1) is bit 7 - (k-1) % 8 of position pos = pix + offset,
\* pix the start of run (k-1) div (8 * stripBPP)
twoPortPos(k) ==
    ((k - 1) \div (8 * stripBPP)) * twoPortIncrement + (((k - 1) \div 8) % stripBPP)

twoPortSoftwareSendBytes(count, memory, overhead) ==
    [k \in 1..(8 * stripBPP * twoPortPixelRuns(count)) |->
        LET pos == twoPortPos(k)
            mask == Pow2(7 - ((k - 1) % 8))
        IN  twoPortSendBit(BitAnd(At(memory, pos), mask) # 0,
                           BitAnd(At(memory, twoPortSecondIndex(count, pos)), mask) # 0,
                           overhead)]

\* the indices of array the call reads: array[pos] and the index of the
\* second line, in every period
twoPortReads(count) ==
    UNION {{twoPortPos(k), twoPortSecondIndex(count, twoPortPos(k))} :
              k \in 1..(8 * stripBPP * twoPortPixelRuns(count))}

(* eightPortSoftwareSendBytes, 1074-1243 *)

\* blockSize = count / (clockPortPin - dataPortPin + 1) / stripBPP * stripBPP
eightPortBlockSize(count) ==
    ((count \div (clockPortPin - dataPortPin + 1)) \div stripBPP) * stripBPP

\* the condition under which case b of the switch loads a byte
eightPortLoads(b) ==
    IF b = 0 THEN 0 = dataPortPin ELSE b >= dataPortPin /\ b <= clockPortPin

\* (mutant) every line reads the first slice
eightPortIndex_FirstSlice(c, b, blockSize) == c

\* the index case b of the switch reads: array[c + (b-dataPortPin) * blockSize],
\* written array[c] in case 0
eightPortIndex(c, b, blockSize) == c + (b - dataPortPin) * blockSize

\* the reads of a call, as pairs of the line and the index
eightPortReads(count) ==
    {<<b, eightPortIndex(c, b, eightPortBlockSize(count))>> :
        c \in 0..(eightPortBlockSize(count) - 1),
        b \in {j \in 0..7 : eightPortLoads(j)}}

\* the masks r0 .. r7 are tested with in case 0 .. case 7 of the switch
eightPortMasks ==
    << <<128, 64, 32, 16, 8, 4, 2, 1>>,
       <<1, 128, 64, 32, 16, 8, 4, 2>>,
       <<2, 1, 128, 64, 32, 16, 8, 4>>,
       <<4, 2, 1, 128, 64, 32, 16, 8>>,
       <<8, 4, 2, 1, 128, 64, 32, 16>>,
       <<16, 8, 4, 2, 1, 128, 64, 32>>,
       <<32, 16, 8, 4, 2, 1, 128, 64>>,
       <<64, 32, 16, 8, 4, 2, 1, 128>> >>

\* (mutant) every line is switched on from the first period
eightPortOnMask_AllOn(onMask, b) == 255

\* onMask |= 1 << b in case b
eightPortOnMask(onMask, b) == BitOr(onMask, Pow2(b))

\* uint8_t bitmask = 0, then the eight if (rJ & mask) bitmask |= 1 << J
RECURSIVE eightPortBitmask(_, _, _)
eightPortBitmask(r, b, j) ==
    IF j > 7 THEN 0
    ELSE (IF BitAnd(r[j + 1], eightPortMasks[b + 1][j + 1]) # 0 THEN Pow2(j) ELSE 0)
         + eightPortBitmask(r, b, j + 1)

\* one run of the body of the bit loop: the registers after it and its period.
\* onMask and bitmask both carry __asm__("r10") but are not register
\* variables, so the label is ignored and they are two variables.
eightPortStep(st, c, b, blockSize, array) ==
    LET loaded == IF eightPortLoads(b)
                  THEN [onMask |-> eightPortOnMask(st.onMask, b),
                        r |-> [st.r EXCEPT ![b + 1] =
                                  At(array, eightPortIndex(c, b, blockSize))]]
                  ELSE st
    IN  [st |-> loaded,
         period |-> <<FAB_PORT(loaded.onMask)>> \o DELAY_CYCLES(high0 - sbiCycles)
                    \o <<FAB_PORT(eightPortBitmask(loaded.r, b, 0))>>
                    \o DELAY_CYCLES(high1 - high0 + sbiCycles)
                    \o <<FAB_PORT(0)>> \o DELAY_CYCLES(low0 - cbiCycles - 20)]

\* for (b = 7; b >= 0; --b), from b on
RECURSIVE eightPortBits(_, _, _, _, _)
eightPortBits(st, c, b, blockSize, array) ==
    IF b < 0 THEN [st |-> st, periods |-> <<>>]
    ELSE LET step == eightPortStep(st, c, b, blockSize, array)
             rest == eightPortBits(step.st, c, b - 1, blockSize, array)
         IN  [st |-> rest.st, periods |-> <<step.period>> \o rest.periods]

\* for (c = 0; c < blockSize; ++c), from c on
RECURSIVE eightPortBytes(_, _, _, _)
eightPortBytes(st, c, blockSize, array) ==
    IF c >= blockSize THEN <<>>
    ELSE LET byte == eightPortBits(st, c, 7, blockSize, array)
         IN  byte.periods \o eightPortBytes(byte.st, c + 1, blockSize, array)

eightPortSoftwareSendBytes(count, array) ==
    eightPortBytes([onMask |-> 0, r |-> [j \in 1..8 |-> 0]], 0,
                   eightPortBlockSize(count), array)

\* sendBytes(count, array): the switch on protocol, which has no default, so
\* that under a protocol without a case the call returns having done nothing;
\* memory is the array and the bytes behind it
sendBytes(count, memory, overhead) ==
    CASE protocol = ONE_PORT_BITBANG ->
             onePortSoftwareSendBytes(count, memory, overhead)
      [] protocol \in {TWO_PORT_SPLIT_BITBANG, TWO_PORT_INTLV_BITBANG} ->
             twoPortSoftwareSendBytes(count, memory, overhead)
      [] protocol = EIGHT_PORT_BITBANG ->
             eightPortSoftwareSendBytes(count, memory)
      [] protocol = SPI_BITBANG ->
             spiSoftwareSendBytes(count, memory)
      [] OTHER -> <<>>

\* one sendBytes(count, array) call followed down to the pins
SendBytes(count, memory, overhead) ==
    /\ trace' = sendBytes(count, memory, overhead)
    /\ op' = [name |-> "sendBytes", count |-> count, array |-> Slice(memory, 0, count),
              overhead |-> overhead]
    /\ sent' = <<Slice(memory, 0, count)>>
    /\ pixels' = <<>>
    /\ frames' = <<>>
    /\ UNCHANGED <<config, peer, buffer, SREG, oldSREG, pixelsDisplayed, session,
                   sregAtBegin, sentSinceEnd>>

----------------------------------------------------------------------------
(* The public methods followed down to the pins, FAB_LED.h 692-717 and      *)
(* 1287-1388.  Here the trace is the log of a driver since its              *)
(* construction: every call of a public method and every sendBytes() call   *)
(* is a period of its own holding a marker, followed by the periods of the  *)
(* port writes, delays and interrupt flag changes the call makes.           *)

\* minMsRefresh: the <CHIP>_MS_REFRESH the LED classes pass, 1901-2083
minMsRefresh ==
    CASE chip = "ws2812b" -> 20
      [] chip = "ws2812"  -> 50
      [] chip = "apa104"  -> 50
      [] chip = "apa102"  -> 84

\* the marker of a call of a public method, and of a sendBytes() call
Call(name, args) ==
    << <<[kind |-> "call", line |-> name, value |-> args, cycles |-> 0]>> >>
Bytes(array) ==
    << <<[kind |-> "bytes", line |-> "sendBytes", value |-> array, cycles |-> 0]>> >>

\* delay(ms), oldSREG = SREG, __builtin_avr_cli() and SREG = oldSREG as events
delay(ms) == [kind |-> "wait", line |-> "none", value |-> ms, cycles |-> 0]
SaveSREG(sreg) == [kind |-> "save", line |-> "sreg", value |-> BoolToBit(sreg), cycles |-> 0]
SetSREG(sreg) == [kind |-> "sreg", line |-> "sreg", value |-> BoolToBit(sreg), cycles |-> 0]

\* (mutant) the loop stops one pulse early
spiFramePeriods_OnePulseShort(frame) ==
    << <<IF frame.data THEN SET_PORT_HIGH("data") ELSE SET_PORT_LOW("data")>> >>
    \o [c \in 1..(frame.pulses - 1) |-> <<SET_PORT_LOW("clock"), SET_PORT_HIGH("clock")>>]

\* spiSoftwareSendFrame(count, high) at the pins: the data line is written
\* once, then the clock line is pulsed low-high 8 * count times
spiFramePeriods(frame) ==
    << <<IF frame.data THEN SET_PORT_HIGH("data") ELSE SET_PORT_LOW("data")>> >>
    \o [c \in 1..frame.pulses |-> <<SET_PORT_LOW("clock"), SET_PORT_HIGH("clock")>>]

\* (mutant) interrupts are disabled before the wait
beginSteps_CliFirst(sreg) ==
    <<SetSREG(BeginSREG(sreg)), delay(minMsRefresh), SaveSREG(BeginSavedSREG(BeginSREG(sreg)))>>

\* the non-SPI branch of begin(): delay(minMsRefresh); oldSREG = SREG; cli
beginSteps(sreg) ==
    <<delay(minMsRefresh), SaveSREG(BeginSavedSREG(sreg)), SetSREG(BeginSREG(sreg))>>

\* the value of oldSREG after the steps of begin()
SavedBy(steps, saved) ==
    LET saves == {j \in 1..Len(steps) : steps[j].kind = "save"}
    IN  IF saves = {} THEN saved
        ELSE steps[CHOOSE j \in saves : \A i \in saves : i <= j].value = 1

\* the driver's mutable state: the interrupt flag, the two static members
\* and the log
Driver == [SREG |-> SREG, oldSREG |-> oldSREG, pixelsDisplayed |-> pixelsDisplayed,
           trace |-> trace]

\* begin()
beginOn(d) ==
    IF protocol = SPI_BITBANG
    THEN [d EXCEPT !.trace = @ \o Call("begin", <<>>)
                                \o spiFramePeriods(spiSoftwareSendFrame(4, FALSE))]
    ELSE [d EXCEPT !.oldSREG = SavedBy(beginSteps(d.SREG), d.oldSREG),
                   !.SREG = BeginSREG(d.SREG),
                   !.trace = @ \o Call("begin", <<>>) \o <<beginSteps(d.SREG)>>]

\* end()
endOn(d) ==
    IF protocol = SPI_BITBANG
    THEN [d EXCEPT !.pixelsDisplayed = EndPixelsDisplayed(d.pixelsDisplayed),
                   !.trace = @ \o Call("end", <<>>)
                               \o spiFramePeriods(spiSoftwareSendFrame(
                                      EndFrameCount(d.pixelsDisplayed), TRUE))]
    ELSE [d EXCEPT !.SREG = EndSREG(d.oldSREG, d.SREG),
                   !.trace = @ \o Call("end", <<>>)
                               \o << <<SetSREG(EndSREG(d.oldSREG, d.SREG))>> >>]

\* the bytes a two-port sendBytes() reads behind the count bytes it is given
ReadBehind(count) ==
    IF protocol \in {TWO_PORT_SPLIT_BITBANG, TWO_PORT_INTLV_BITBANG}
       /\ twoPortReach(count) > count
    THEN twoPortReach(count) - count ELSE 0

\* the sendBytes() calls of a list, each with its marker; junk is what the
\* memory behind an array holds
RECURSIVE sendBytesEach(_, _, _)
sendBytesEach(calls, junk, overhead) ==
    IF calls = <<>> THEN <<>>
    ELSE LET array == Head(calls)
             memory == array \o [k \in 1..ReadBehind(Len(array)) |-> junk]
         IN  Bytes(array) \o sendBytes(Len(array), memory, overhead)
             \o sendBytesEach(Tail(calls), junk, overhead)

\* send<pixelClassF>(numPixels, array), reached through the public
\* send(count, const entryPixelType * array)
sendOn(d, src, numPixels, array, junk, overhead) ==
    [d EXCEPT !.pixelsDisplayed = CountPixels(d.pixelsDisplayed, numPixels),
              !.trace = @ \o Call("send", <<src, numPixels, array, junk, overhead>>)
                          \o sendBytesEach(TypedSendCalls(src, numPixels, array),
                                           junk, overhead)]

\* send(count, const uint8_t * array): send<pixelClass>(count/stripBPP, array)
sendRawOn(d, count, array, junk, overhead) ==
    sendOn(d, native, RawPixelCount(count), array, junk, overhead)

\* (mutant) draw without the closing end()
drawOn_NoEnd(d, src, count, array, junk, overhead) ==
    sendOn(beginOn(d), src, count, array, junk, overhead)

\* draw<pixelClassF>(count, array): begin(); send(count, array); end()
drawOn(d, src, count, array, junk, overhead) ==
    endOn(sendOn(beginOn(d), src, count, array, junk, overhead))

\* draw(count, const uint8_t * array): draw<pixelClass>(count/stripBPP, array)
drawRawOn(d, count, array, junk, overhead) ==
    drawOn(d, native, RawPixelCount(count), array, junk, overhead)

\* for (i = 0; i < numPixels; i++) send(stripBPP, array), from i on
RECURSIVE greyLoop(_, _, _, _, _, _)
greyLoop(d, i, numPixels, array, junk, overhead) ==
    IF i >= numPixels THEN d
    ELSE greyLoop(sendRawOn(d, stripBPP, array, junk, overhead),
                  i + 1, numPixels, array, junk, overhead)

\* grey(numPixels, value): begin(); the loop on an array of stripBPP bytes
\* equal to value; end()
greyOn(d, numPixels, value, junk, overhead) ==
    endOn(greyLoop(beginOn(d), 0, numPixels, [k \in 1..stripBPP |-> value],
                   junk, overhead))

\* clear(numPixels): grey(numPixels, 0)
clearOn(d, numPixels, junk, overhead) == greyOn(d, numPixels, 0, junk, overhead)

\* the driver's state after a call, the caller's position and the call's record
Becomes(d, position, call) ==
    /\ SREG' = d.SREG
    /\ oldSREG' = d.oldSREG
    /\ pixelsDisplayed' = d.pixelsDisplayed
    /\ trace' = d.trace
    /\ session' = position
    /\ op' = call
    /\ pixels' = <<>>
    /\ sent' = <<>>
    /\ frames' = <<>>
    /\ UNCHANGED <<config, peer, buffer>>

\* what a call's record keeps of the state before it; at is the length of
\* the log, so that the call's marker is period at + 1
Before == [SREG |-> SREG, oldSREG |-> oldSREG, pixelsDisplayed |-> pixelsDisplayed,
           at |-> Len(trace)]

StripBegin ==
    /\ session = "idle"
    /\ sregAtBegin' = SREG
    /\ sentSinceEnd' = 0
    /\ Becomes(beginOn(Driver), "open", [name |-> "begin", before |-> Before])

StripEnd ==
    /\ session = "open"
    /\ UNCHANGED sregAtBegin
    /\ sentSinceEnd' = 0
    /\ Becomes(endOn(Driver), "idle", [name |-> "end", before |-> Before])

StripSend(src, numPixels, array, junk, overhead) ==
    /\ session = "open"
    /\ sentSinceEnd + numPixels <= MaxSession
    /\ UNCHANGED sregAtBegin
    /\ sentSinceEnd' = sentSinceEnd + numPixels
    /\ Becomes(sendOn(Driver, src, numPixels, array, junk, overhead), "open",
               [name |-> "send", src |-> src, count |-> numPixels, array |-> array,
                before |-> Before])

StripSendRaw(count, array, junk, overhead) ==
    /\ session = "open"
    /\ sentSinceEnd + RawPixelCount(count) <= MaxSession
    /\ UNCHANGED sregAtBegin
    /\ sentSinceEnd' = sentSinceEnd + RawPixelCount(count)
    /\ Becomes(sendRawOn(Driver, count, array, junk, overhead), "open",
               [name |-> "sendRaw", src |-> native, count |-> count, array |-> array,
                before |-> Before])

StripDraw(src, count, array, junk, overhead) ==
    /\ session = "idle"
    /\ UNCHANGED sregAtBegin
    /\ sentSinceEnd' = 0
    /\ Becomes([drawOn(Driver, src, count, array, junk, overhead)
                   EXCEPT !.trace = trace \o Call("draw", <<src, count, array, junk, overhead>>)
                                    \o SubSeq(@, Len(trace) + 1, Len(@))],
               "idle",
               [name |-> "draw", src |-> src, count |-> count, array |-> array,
                before |-> Before])

StripDrawRaw(count, array, junk, overhead) ==
    /\ session = "idle"
    /\ UNCHANGED sregAtBegin
    /\ sentSinceEnd' = 0
    /\ Becomes([drawRawOn(Driver, count, array, junk, overhead)
                   EXCEPT !.trace = trace \o Call("drawRaw", <<count, array, junk, overhead>>)
                                    \o SubSeq(@, Len(trace) + 1, Len(@))],
               "idle",
               [name |-> "drawRaw", src |-> native, count |-> count, array |-> array,
                before |-> Before])

StripGrey(numPixels, value, junk, overhead) ==
    /\ session = "idle"
    /\ UNCHANGED sregAtBegin
    /\ sentSinceEnd' = 0
    /\ Becomes([greyOn(Driver, numPixels, value, junk, overhead)
                   EXCEPT !.trace = trace \o Call("grey", <<numPixels, value>>)
                                    \o SubSeq(@, Len(trace) + 1, Len(@))],
               "idle",
               [name |-> "grey", count |-> numPixels, value |-> value, before |-> Before])

StripClear(numPixels, junk, overhead) ==
    /\ session = "idle"
    /\ UNCHANGED sregAtBegin
    /\ sentSinceEnd' = 0
    /\ Becomes([clearOn(Driver, numPixels, junk, overhead)
                   EXCEPT !.trace = trace \o Call("clear", <<numPixels>>)
                                    \o SubSeq(@, Len(trace) + 1, Len(@))],
               "idle",
               [name |-> "clear", count |-> numPixels, value |-> 0, before |-> Before])

----------------------------------------------------------------------------
(* Inputs *)

\* the pixels the sends are tried on, as struct bytes in memory order
PixelPool(f) == {[k \in 1..SizeOf(f) |-> 10 * k], [k \in 1..SizeOf(f) |-> 200 + k]}

\* the arrays of n pixels of struct f
PixelArrays(f, n) == {Flatten(a) : a \in [1..n -> PixelPool(f)]}

\* n times the same pixel
UniformArray(f, n) == Flatten([i \in 1..n |-> [k \in 1..SizeOf(f) |-> 10 * k]])

\* the remap tables for count positions over an array of n pixels
MapTables(count, n) == [1..count -> 0..(n - 1)]

\* bit-packed index arrays, long enough for MaxPixels indices of any width
PackedArrays == {[i \in 1..MaxPixels |-> 1], [i \in 1..MaxPixels |-> 228]}

\* a palette of 2^bitsPerPixel pixels of struct f, entry c differing from
\* every other entry in each byte
PaletteOf(f, bitsPerPixel) ==
    [j \in 1..(Pow2(bitsPerPixel) * SizeOf(f)) |->
        (4 * ((j - 1) \div SizeOf(f)) + ((j - 1) % SizeOf(f)) + 1) % UINT8]

\* 16-bit r:5 g:6 b:5 values
Packed16Values == {2113, 65535}

MapWidths == {UINT8, UINT16}

----------------------------------------------------------------------------
(* The session: begin(), any sends, end(), on one driver *)

Init ==
    /\ protocol \in ImplementedProtocols
    /\ native \in Formats
    /\ F_CPU = 16000000
    /\ chip = (IF protocol = SPI_BITBANG THEN "apa102" ELSE "ws2812b")
    /\ dataPortPin = 0
    /\ clockPortPin = 1
    /\ buffer = <<>>
    /\ trace = <<>>
    /\ peer = NoPeer
    /\ SREG \in BOOLEAN
    /\ oldSREG \in BOOLEAN
    /\ pixelsDisplayed = 0
    /\ session = "idle"
    /\ sregAtBegin = FALSE
    /\ sentSinceEnd = 0
    /\ op = [name |-> "init"]
    /\ pixels = <<>>
    /\ sent = <<>>
    /\ frames = IF protocol = SPI_BITBANG
                THEN <<spiSoftwareSendFrame(16, FALSE)>> ELSE <<>>

Next ==
    \/ Begin
    \/ End
    \/ \E enable \in BOOLEAN : SetInterrupts(enable)
    \/ \E src \in {native, "rgb"}, n \in 0..MaxPixels :
           SendTyped(src, n, UniformArray(src, n))
    \/ \E n \in 0..MaxPixels, perPixel \in {1, SizeOf(native)} :
           SendRaw(n * perPixel, UniformArray(native, n))
    \/ \E n \in 1..MaxPixels :
           SendMapped(native, n, UniformArray(native, n), FALSE, <<>>, UINT16)
    \/ \E n \in 1..MaxPixels, array \in PackedArrays :
           SendPalette(2, native, n, array, PaletteOf(native, 2), FALSE, <<>>, UINT16)
    \/ \E n \in 1..MaxPixels :
           SendPacked16(n, [i \in 1..n |-> 2113], 1)

Spec == Init /\ [][Next]_vars

----------------------------------------------------------------------------
(* The format conversion: typed, raw and packed 16-bit sends on every pair  *)
(* of source and native format                                             *)

InitConvert ==
    /\ Init
    /\ protocol \in {ONE_PORT_BITBANG, SPI_BITBANG}
    /\ SREG = TRUE
    /\ oldSREG = FALSE

\* each behaviour applies one send to a freshly constructed driver
ConvertTyped ==
    /\ op.name = "init"
    /\ \E src \in Formats, n \in 0..MaxPixels :
           \E array \in PixelArrays(src, n) : SendTyped(src, n, array)

ConvertRaw ==
    /\ op.name = "init"
    /\ \E n \in 0..MaxPixels, perPixel \in {1, SizeOf(native)} :
           \E array \in PixelArrays(native, n) : SendRaw(n * perPixel, array)

ConvertPacked16 ==
    /\ op.name = "init"
    /\ \E n \in 0..MaxPixels, brightness \in {0, 1, 8} :
           \E array \in [1..n -> Packed16Values] : SendPacked16(n, array, brightness)

NextConvert == ConvertTyped \/ ConvertRaw \/ ConvertPacked16

SpecConvert == InitConvert /\ [][NextConvert]_vars

----------------------------------------------------------------------------
(* The remapped and palette sends                                          *)

\* each behaviour applies one send to a freshly constructed driver
RemapMapped ==
    /\ op.name = "init"
    /\ \E f \in Formats, n \in 1..MaxPixels, count \in 0..MaxPixels, width \in MapWidths :
           \E array \in PixelArrays(f, n) :
               \/ \E map \in MapTables(count, n) :
                      SendMapped(f, count, array, TRUE, map, width)
               \/ count <= n /\ SendMapped(f, count, array, FALSE, <<>>, width)

RemapPalette ==
    /\ op.name = "init"
    /\ \E f \in Formats, bpp \in {1, 2, 4, 8}, count \in 0..MaxPixels, width \in MapWidths :
           \E array \in PackedArrays :
               \/ \E map \in MapTables(count, MaxPixels) :
                      SendPalette(bpp, f, count, array, PaletteOf(f, bpp), TRUE, map, width)
               \/ SendPalette(bpp, f, count, array, PaletteOf(f, bpp), FALSE, <<>>, width)

\* a strip of 256 positions or more, remapped through an 8-bit table or not
\* remapped, showing an array of MaxPixels pixels; the table has one entry
\* for each position
RemapLong ==
    /\ op.name = "init"
    /\ \E f \in Formats, more \in 0..MaxPixels, hasMap \in BOOLEAN :
           \E array \in PixelArrays(f, MaxPixels) :
               SendMapped(f, UINT8 + more, array, hasMap,
                          IF hasMap THEN [i \in 1..(UINT8 + more) |-> (i - 1) % MaxPixels]
                                    ELSE <<>>,
                          UINT8)

NextRemap == RemapMapped \/ RemapPalette

SpecRemap == InitConvert /\ [][NextRemap]_vars

\* the same sends, and those of more positions than the index type counts
NextRemapLong == RemapMapped \/ RemapPalette \/ RemapLong

SpecRemapLong == InitConvert /\ [][NextRemapLong]_vars

----------------------------------------------------------------------------
(* The palette index macros on an application buffer                       *)

PackedBytes == {0, 228, 255}

PackedBuffers == [1..BufferBytes -> PackedBytes]

PaletteWidths == {1, 2, 4, 8}

\* the positions a buffer of n bytes holds at bitsPerPixel bits each
Positions(n, bitsPerPixel) == 0..(n * (8 \div bitsPerPixel) - 1)

InitPacked ==
    /\ protocol = ONE_PORT_BITBANG
    /\ native = "grb"
    /\ F_CPU = 16000000
    /\ chip = "ws2812b"
    /\ dataPortPin = 0
    /\ clockPortPin = 1
    /\ SREG = TRUE
    /\ oldSREG = TRUE
    /\ pixelsDisplayed = 0
    /\ session = "idle"
    /\ buffer \in PackedBuffers
    /\ sregAtBegin = FALSE
    /\ sentSinceEnd = 0
    /\ op = [name |-> "init"]
    /\ pixels = <<>>
    /\ sent = <<>>
    /\ frames = <<>>
    /\ trace = <<>>
    /\ peer = NoPeer

\* SET_PIXEL(buffer, index, bitsPerPixel, color) in the application
SetPixel(index, bitsPerPixel, color) ==
    /\ op.name = "init"
    /\ buffer' = SET_PIXEL(buffer, index, bitsPerPixel, color)
    /\ op' = [name |-> "setPixel", index |-> index, bitsPerPixel |-> bitsPerPixel,
              color |-> color, before |-> buffer]
    /\ UNCHANGED <<config, peer, trace, SREG, oldSREG, pixelsDisplayed, session,
                   sregAtBegin, sentSinceEnd, pixels, sent, frames>>

\* colorIndex = GET_PIXEL(buffer, index, bitsPerPixel) in the application
GetPixel(index, bitsPerPixel) ==
    /\ op.name = "init"
    /\ op' = [name |-> "getPixel", index |-> index, bitsPerPixel |-> bitsPerPixel,
              result |-> GET_PIXEL(buffer, index, bitsPerPixel)]
    /\ UNCHANGED <<config, peer, buffer, trace, SREG, oldSREG, pixelsDisplayed, session,
                   sregAtBegin, sentSinceEnd, pixels, sent, frames>>

\* uint8_t buffer[ARRAY_SIZE(numPixels, bitsPerPixel)], zeroed, then
\* SET_PIXEL(buffer, index, bitsPerPixel, color) and GET_PIXEL of the same
\* index; a write behind the buffer is undefined and may leave it as it is
ArrayPixel(numPixels, bitsPerPixel, index, color) ==
    LET size == ARRAY_SIZE(numPixels, bitsPerPixel)
        zero == [k \in 1..size |-> 0]
        inside == PixelByte(index, bitsPerPixel) < size
    IN
    /\ op.name = "init"
    /\ buffer' = IF inside THEN SET_PIXEL(zero, index, bitsPerPixel, color) ELSE zero
    /\ \E junk \in {0, Pow2(bitsPerPixel) - 1} :
           op' = [name |-> "arrayPixel", numPixels |-> numPixels,
                  bitsPerPixel |-> bitsPerPixel, index |-> index, color |-> color,
                  size |-> size, touched |-> PixelByte(index, bitsPerPixel),
                  result |-> IF inside THEN GET_PIXEL(buffer', index, bitsPerPixel)
                             ELSE junk]
    /\ UNCHANGED <<config, peer, trace, SREG, oldSREG, pixelsDisplayed, session,
                   sregAtBegin, sentSinceEnd, pixels, sent, frames>>

PackedSet ==
    \E bitsPerPixel \in PaletteWidths :
        \E index \in Positions(Len(buffer), bitsPerPixel),
           color \in 0..(Pow2(bitsPerPixel) - 1) :
            SetPixel(index, bitsPerPixel, color)

PackedGet ==
    \E bitsPerPixel \in PaletteWidths :
        \E index \in Positions(Len(buffer), bitsPerPixel) :
            GetPixel(index, bitsPerPixel)

PackedArray ==
    \E numPixels \in 1..MaxArrayPixels, bitsPerPixel \in PaletteWidths :
        \E index \in 0..(numPixels - 1), color \in {1, Pow2(bitsPerPixel) - 1} :
            ArrayPixel(numPixels, bitsPerPixel, index, color)

NextPacked == PackedSet \/ PackedGet \/ PackedArray

SpecPacked == InitPacked /\ [][NextPacked]_vars

----------------------------------------------------------------------------
(* The time conversion macros on several builds                            *)

\* clock frequencies of AVR boards, in Hz
Frequencies == {8000000, 12000000, 14745600, 16000000, 16500000, 20000000}

\* durations in ns, covering every argument the LED classes pass to CYCLES
Durations == 0..MaxNs

InitTiming ==
    /\ protocol = ONE_PORT_BITBANG
    /\ native = "grb"
    /\ F_CPU \in Frequencies
    /\ chip = "ws2812b"
    /\ dataPortPin = 0
    /\ clockPortPin = 1
    /\ SREG = TRUE
    /\ oldSREG = TRUE
    /\ pixelsDisplayed = 0
    /\ session = "idle"
    /\ buffer = <<>>
    /\ sregAtBegin = FALSE
    /\ sentSinceEnd = 0
    /\ op = [name |-> "init"]
    /\ pixels = <<>>
    /\ sent = <<>>
    /\ frames = <<>>
    /\ trace = <<>>
    /\ peer = NoPeer

TimingConvert ==
    /\ op.name = "init"
    /\ \E time_ns \in Durations : ConvertTime(time_ns)

NextTiming == TimingConvert

SpecTiming == InitTiming /\ [][NextTiming]_vars

----------------------------------------------------------------------------
(* Bit generation: one sendBytes() call on a freshly constructed driver,   *)
(* for every protocol, on several builds                                   *)

WireBytes == {0, 1, 165, 255}

\* byte arrays of n bytes with a recognisable content
WirePatterns(n) ==
    {[i \in 1..n |-> (37 * i + 11) % UINT8],
     [i \in 1..n |-> IF i % 2 = 1 THEN 240 ELSE 15],
     [i \in 1..n |-> 255],
     [i \in 1..n |-> 0]}

\* cycles the loop control takes between two bit periods
Overheads == {0, 3}

\* what a read behind the end of the array finds
JunkBytes == {0, 255}

\* the first and last pin of the lines of an eight-port driver
PinRanges == {<<0, 1>>, <<0, 7>>, <<2, 4>>, <<7, 7>>}

\* every value of ledProtocol instantiates the class: no static assertion
\* or #error tests protocol, and the constructor has a default branch
InitWire ==
    /\ protocol \in Protocols
    /\ native \in {"grb", "rgbw"}
    /\ F_CPU \in {8000000, 16000000}
    /\ chip \in (IF protocol = SPI_BITBANG THEN {"apa102"}
                 ELSE {"ws2812b", "ws2812", "apa104"})
    /\ \E pins \in (IF protocol = EIGHT_PORT_BITBANG THEN PinRanges ELSE {<<0, 1>>}) :
           /\ dataPortPin = pins[1]
           /\ clockPortPin = pins[2]
    /\ SREG = TRUE
    /\ oldSREG = TRUE
    /\ pixelsDisplayed = 0
    /\ session = "idle"
    /\ buffer = <<>>
    /\ sregAtBegin = FALSE
    /\ sentSinceEnd = 0
    /\ op = [name |-> "init"]
    /\ pixels = <<>>
    /\ sent = <<>>
    /\ frames = IF protocol = SPI_BITBANG
                THEN <<spiSoftwareSendFrame(16, FALSE)>> ELSE <<>>
    /\ trace = <<>>
    /\ peer = NoPeer

WireOnePort ==
    /\ op.name = "init"
    /\ protocol = ONE_PORT_BITBANG
    /\ \E count \in 0..MaxWireBytes, overhead \in Overheads :
           \E array \in [1..count -> WireBytes] : SendBytes(count, array, overhead)

WireSpi ==
    /\ op.name = "init"
    /\ protocol = SPI_BITBANG
    /\ \E count \in 0..MaxWireBytes :
           \E array \in [1..count -> WireBytes] : SendBytes(count, array, 0)

\* a buffer of whole pixels; the bytes behind it are whatever memory holds
WireTwoPort ==
    /\ op.name = "init"
    /\ protocol \in {TWO_PORT_SPLIT_BITBANG, TWO_PORT_INTLV_BITBANG}
    /\ \E numPixels \in 0..MaxPixels, overhead \in Overheads, junk \in JunkBytes :
           LET count == numPixels * stripBPP IN
           \E array \in WirePatterns(count) :
               SendBytes(count,
                         array \o [k \in 1..(twoPortReach(count) - count) |-> junk],
                         overhead)

\* a buffer of whole pixels for every line, with no byte, a byte or a pixel
\* to spare
WireEightPort ==
    /\ op.name = "init"
    /\ protocol = EIGHT_PORT_BITBANG
    /\ \E perLine \in 0..MaxPixels, spare \in {0, 1, stripBPP} :
           LET count == (clockPortPin - dataPortPin + 1) * perLine * stripBPP + spare IN
           \E array \in WirePatterns(count) : SendBytes(count, array, 0)

\* a driver of a protocol that is declared only
WireUnimplemented ==
    /\ op.name = "init"
    /\ protocol \notin ImplementedProtocols
    /\ \E count \in 0..MaxWireBytes :
           \E array \in [1..count -> WireBytes] : SendBytes(count, array, 0)

NextWire == WireOnePort \/ WireTwoPort \/ WireEightPort \/ WireSpi \/ WireUnimplemented

SpecWire == InitWire /\ [][NextWire]_vars

----------------------------------------------------------------------------
(* Two drivers of different non-SPI configurations, each with at most one  *)
(* open session, their begin() and end() calls interleaved in any order    *)

InitPeer ==
    /\ protocol \in ImplementedProtocols \ {SPI_BITBANG}
    /\ native \in Formats
    /\ F_CPU = 16000000
    /\ chip = "ws2812b"
    /\ dataPortPin = 0
    /\ clockPortPin = 1
    /\ buffer = <<>>
    /\ trace = <<>>
    /\ SREG \in BOOLEAN
    /\ oldSREG \in BOOLEAN
    /\ peer \in [oldSREG : BOOLEAN, session : {"idle"}, sregIdle : {SREG}]
    /\ pixelsDisplayed = 0
    /\ session = "idle"
    /\ sregAtBegin = FALSE
    /\ sentSinceEnd = 0
    /\ op = [name |-> "init"]
    /\ pixels = <<>>
    /\ sent = <<>>
    /\ frames = <<>>

\* no session was closed yet, or one is still open
InFirstRun ==
    ~(session = "idle" /\ peer.session = "idle" /\ op.name \in {"end", "peerEnd"})

PairBegin == InFirstRun /\ Begin
PairEnd == End
PairPeerBegin == InFirstRun /\ PeerBegin
PairPeerEnd == PeerEnd

NextPeer == PairBegin \/ PairEnd \/ PairPeerBegin \/ PairPeerEnd

SpecPeer == InitPeer /\ [][NextPeer]_vars

----------------------------------------------------------------------------
(* A caller using the public methods of one driver, logged at the pins *)


\* an array of n pixels of a format, every byte telling its pixel and place
StripArray(f, n) ==
    [j \in 1..(n * SizeOf(f)) |-> 16 * (((j - 1) \div SizeOf(f)) + 1) + ((j - 1) % SizeOf(f)) + 1]

\* the byte a two-port driver finds behind the caller's arrays; the caller's
\* memory is kept in buffer
StripJunk == buffer[1]

\* the calls of public methods in the log
ApiCalls == {p \in 1..Len(trace) : trace[p][1].kind = "call"}

Composites == {"draw", "drawRaw", "grey", "clear"}

\* a behaviour is at most MaxCalls calls, and a composite call is its last
MayCall == op.name \notin Composites /\ Cardinality(ApiCalls) < MaxCalls

\* the send calls since the last begin()
SendsInSession ==
    LET begins == {p \in ApiCalls : trace[p][1].line = "begin"}
    IN  Cardinality({p \in ApiCalls : /\ trace[p][1].line = "send"
                                      /\ \A b \in begins : b < p})

MaySend == MayCall /\ SendsInSession < MaxSends

InitStrip ==
    /\ protocol \in ImplementedProtocols
    /\ native \in (IF protocol = SPI_BITBANG THEN {"hbgr", "grb"} ELSE {"grb"})
    /\ F_CPU = 16000000
    /\ chip \in (CASE protocol = SPI_BITBANG -> {"apa102"}
                  [] protocol = ONE_PORT_BITBANG -> {"ws2812b", "ws2812"}
                  [] OTHER -> {"ws2812b"})
    /\ \E pins \in (IF protocol = EIGHT_PORT_BITBANG THEN {<<0, 1>>, <<7, 7>>}
                    ELSE {<<0, 1>>}) :
           /\ dataPortPin = pins[1]
           /\ clockPortPin = pins[2]
    /\ SREG \in (IF protocol = SPI_BITBANG THEN {TRUE} ELSE BOOLEAN)
    /\ oldSREG = SREG
    /\ pixelsDisplayed = 0
    /\ session = "idle"
    /\ buffer \in (IF protocol \in {TWO_PORT_SPLIT_BITBANG, TWO_PORT_INTLV_BITBANG}
                   THEN {<<junk>> : junk \in JunkBytes} ELSE {<<0>>})
    /\ sregAtBegin = FALSE
    /\ sentSinceEnd = 0
    /\ op = [name |-> "init"]
    /\ pixels = <<>>
    /\ sent = <<>>
    /\ frames = <<>>
    /\ trace = <<>>
    /\ peer = NoPeer

CallBegin == MayCall /\ StripBegin

CallEnd == MayCall /\ StripEnd

\* arrays of the native format of up to MaxPixels pixels, and one pixel
\* of another format
CallSend ==
    /\ MaySend
    /\ \E src \in {native, "rgb"} :
           \E numPixels \in 1..(IF src = native THEN MaxPixels ELSE 1) :
               StripSend(src, numPixels, StripArray(src, numPixels), StripJunk, 0)

\* one pixel of the native format; count is given in pixels, as documented,
\* or in bytes
CallSendRaw ==
    /\ MaySend
    /\ \E per \in {1, stripBPP} :
           StripSendRaw(per, StripArray(native, 1), StripJunk, 0)

CallDraw ==
    /\ MayCall
    /\ \E src \in {native, "rgb"} :
           \E numPixels \in 1..(IF src = native THEN MaxPixels ELSE 1) :
               StripDraw(src, numPixels, StripArray(src, numPixels), StripJunk, 0)

CallDrawRaw ==
    /\ MayCall
    /\ \E per \in {1, stripBPP} :
           StripDrawRaw(per, StripArray(native, 1), StripJunk, 0)

CallGrey ==
    /\ MayCall
    /\ \E numPixels \in 0..MaxPixels, value \in {0, 255} :
           StripGrey(numPixels, value, StripJunk, 0)

CallClear ==
    /\ MayCall
    /\ \E numPixels \in 0..MaxPixels : StripClear(numPixels, StripJunk, 0)

NextStrip ==
    \/ CallBegin \/ CallEnd \/ CallSend \/ CallSendRaw
    \/ CallDraw \/ CallDrawRaw \/ CallGrey \/ CallClear

SpecStrip == InitStrip /\ [][NextStrip]_vars

----------------------------------------------------------------------------
(* A session sending an array of another format, then one sending the same  *)
(* pixels as an array of the native format                                  *)

\* the pixels the conversion loop of send<src> builds, whole, from i on
RECURSIVE ConvertedPixels(_, _, _, _, _)
ConvertedPixels(src, i, numPixels, array, p) ==
    IF i >= numPixels THEN <<>>
    ELSE LET q == ConvertPixel(src, p, array, i)
         IN  q \o ConvertedPixels(src, i + 1, numPixels, array, q)

\* the calls of send in the log
SendCalls == {p \in ApiCalls : trace[p][1].line = "send"}

InitForward ==
    /\ protocol \in ImplementedProtocols
    /\ native \in (IF protocol = SPI_BITBANG THEN {"hbgr", "grb"} ELSE {"grb", "rgbw"})
    /\ F_CPU = 16000000
    /\ chip = (IF protocol = SPI_BITBANG THEN "apa102" ELSE "ws2812b")
    /\ \E pins \in (IF protocol = EIGHT_PORT_BITBANG THEN {<<0, 1>>, <<2, 4>>, <<7, 7>>}
                    ELSE {<<0, 1>>}) :
           /\ dataPortPin = pins[1]
           /\ clockPortPin = pins[2]
    /\ SREG = TRUE
    /\ oldSREG = SREG
    /\ pixelsDisplayed = 0
    /\ session = "idle"
    /\ buffer \in (IF protocol \in {TWO_PORT_SPLIT_BITBANG, TWO_PORT_INTLV_BITBANG}
                   THEN {<<junk>> : junk \in JunkBytes} ELSE {<<0>>})
    /\ sregAtBegin = FALSE
    /\ sentSinceEnd = 0
    /\ op = [name |-> "init"]
    /\ pixels = <<>>
    /\ sent = <<>>
    /\ frames = <<>>
    /\ trace = <<>>
    /\ peer = NoPeer

ForwardBegin ==
    /\ op.name \in {"init", "end"}
    /\ Cardinality(SendCalls) < 2
    /\ StripBegin

ForwardConverted ==
    /\ op.name = "begin"
    /\ SendCalls = {}
    /\ \E src \in Formats \ {native}, numPixels \in 1..MaxPixels :
           StripSend(src, numPixels, StripArray(src, numPixels), StripJunk, 0)

ForwardEnd ==
    /\ op.name = "send"
    /\ StripEnd

\* the pixels of the first session, converted, as one array of the native format
ForwardNative ==
    /\ op.name = "begin"
    /\ SendCalls # {}
    /\ LET first == trace[CHOOSE p \in SendCalls : TRUE][1].value
       IN  StripSend(native, first[2],
                     ConvertedPixels(first[1], 0, first[2], first[3], InitialPixel),
                     StripJunk, 0)

NextForward == ForwardBegin \/ ForwardConverted \/ ForwardEnd \/ ForwardNative

SpecForward == InitForward /\ [][NextForward]_vars

----------------------------------------------------------------------------
(* Properties *)

SendNames == {"send", "sendRaw", "sendMapped", "sendPalette", "sendPacked16"}

\* the extra channel the type tag of struct f declares
HasWhite(f) == BitAnd(TypeOf(f), PT_XBYT) = PT_XXXW
HasBrightness(f) == BitAnd(TypeOf(f), PT_XBYT) = PT_BXXX

\* C1: under every non-Strobe protocol interrupts are disabled in every state
\* between begin() and the matching end(), whatever sends were made
C1_InterruptsOffInSession ==
    (session = "open" /\ protocol # SPI_BITBANG) => SREG = FALSE

\* C1 witness: a session begun with interrupts enabled, after a send
C1_Witness ==
    /\ session = "open"
    /\ protocol # SPI_BITBANG
    /\ sregAtBegin = TRUE
    /\ op.name \in SendNames
    /\ sentSinceEnd >= 2

\* C2: under every non-Strobe protocol the interrupt-enable state right after
\* end() is the state right before the matching begin()
C2_EndRestoresInterrupts ==
    (op.name = "end" /\ protocol # SPI_BITBANG) => SREG = op.sregBefore

\* C2 witness: end() of a session that was begun with interrupts enabled and
\* in which pixels were sent
C2_Witness ==
    /\ op.name = "end"
    /\ protocol # SPI_BITBANG
    /\ op.sregBefore = TRUE
    /\ op.pixels > 0

\* C3 (as claimed): under Strobe the closing frame of end() has ceil(n/2)
\* clock pulses, n the number of pixels sent since the previous end()
C3_EndFrameHalfPulsePerPixel ==
    (op.name = "end" /\ protocol = SPI_BITBANG) =>
        /\ Len(frames) = 1
        /\ frames[1].pulses = (op.pixels + 1) \div 2

\* C4: under Strobe pixelsDisplayed is 0 right after every end()
C4_CounterZeroAfterEnd ==
    (op.name = "end" /\ protocol = SPI_BITBANG) => pixelsDisplayed = 0

\* C4 witness: end() of a session whose counter had counted pixels
C4_Witness ==
    /\ op.name = "end"
    /\ protocol = SPI_BITBANG
    /\ op.counter > 0

\* C5 (as claimed): under Strobe the counter equals, modulo 2^16, the pixels
\* sent by all send calls since the last end(), whichever overload sent them
C5_CounterCountsEverySend ==
    protocol = SPI_BITBANG => pixelsDisplayed = sentSinceEnd % UINT16

\* C6 (as claimed): stripBPP is 4 for a format with an extra channel and 3
\* otherwise, and equals the size of the format's pixel struct
C6_BytesPerPixelOfFormat ==
    /\ stripBPP = (IF HasWhite(native) \/ HasBrightness(native) THEN 4 ELSE 3)
    /\ stripBPP = SizeOf(native)

\* C7 (as claimed): a typed send in the native format hands every byte of the
\* n pixel structs to sendBytes, in order and unchanged
C7_NativeSendForwardsEveryByte ==
    (op.name = "send" /\ op.src = native) => Flatten(sent) = op.array

\* C8 (as claimed): a typed send in another format transmits, for each pixel,
\* a native pixel with the source's red, green and blue, white 0 when the
\* source has no white and header 0xFF when the source has no brightness
C8_ConversionKeepsChannels ==
    (op.name = "send" /\ op.src # native) =>
        /\ Len(sent) = op.count
        /\ \A i \in 1..op.count :
             LET source == PixelAt(op.src, op.array, i - 1) IN
             /\ Len(sent[i]) = SizeOf(native)
             /\ \A c \in {"r", "g", "b"} :
                    At(sent[i], Offset(native, c)) = At(source, Offset(op.src, c))
             /\ (HasWhite(native) /\ ~HasWhite(op.src)) =>
                    At(sent[i], Offset(native, "w")) = 0
             /\ (HasBrightness(native) /\ ~HasBrightness(op.src)) =>
                    At(sent[i], Offset(native, "B")) = 255

\* the logical index of physical position i (from 0) of the last remapped send
LogicalIndex(i) == IF op.hasMap THEN At(op.map, i) ELSE i

\* C9 (as claimed): the palette send transmits, for each position i, the
\* palette entry of the color index decoded from the packed array at the
\* logical index of i
C9_PaletteSendsDecodedColor ==
    op.name = "sendPalette" =>
        pixels = [i \in 1..op.count |->
                    PixelAt(op.src, PaletteOf(op.src, op.bitsPerPixel),
                            GET_PIXEL(op.array, LogicalIndex(i - 1), op.bitsPerPixel))]

\* the pixels array[remap[i]], i = 0..count-1, of the last remapped send
MappedSelection ==
    [i \in 1..op.count |-> PixelAt(op.src, op.array, LogicalIndex(i - 1))]

C11_SetThenGetRoundTrip ==
    op.name = "setPixel" =>
        /\ GET_PIXEL(buffer, op.index, op.bitsPerPixel) = op.color
        /\ Len(buffer) = Len(op.before)
        /\ \A q \in Positions(Len(buffer), op.bitsPerPixel) \ {op.index} :
               GET_PIXEL(buffer, q, op.bitsPerPixel)
                   = GET_PIXEL(op.before, q, op.bitsPerPixel)

\* C11 witness: a field is overwritten with a different value in a byte whose
\* other fields are not all zero
C11_Witness ==
    /\ op.name = "setPixel"
    /\ op.bitsPerPixel = 2
    /\ op.index = 5
    /\ op.before[2] = 228
    /\ op.color = 3
    /\ buffer[2] = 236

\* the bpp-bit field of byte p div (8/bpp) starting at bit (p*bpp) mod 8
FieldOf(array, p, bpp) ==
    (At(array, p \div (8 \div bpp)) \div Pow2((p * bpp) % 8)) % Pow2(bpp)

\* C12: GET_PIXEL(buffer, p, bpp) is the bpp-bit field of byte p div (8/bpp)
\* starting at bit (p*bpp) mod 8 (least-significant group first); with bpp = 2
\* the byte 0b11100100 decodes positions 0,1,2,3 to 0,1,2,3
C12_GetPixelLeastSignificantFirst ==
    op.name = "getPixel" =>
        /\ op.result = FieldOf(buffer, op.index, op.bitsPerPixel)
        /\ (op.bitsPerPixel = 2 /\ op.index < 4 /\ buffer[1] = 228) =>
               op.result = op.index

\* C12 witness: position 3 of the byte 0b11100100 read at 2 bits per pixel
C12_Witness ==
    /\ op.name = "getPixel"
    /\ op.bitsPerPixel = 2
    /\ op.index = 3
    /\ buffer[1] = 228
    /\ op.result = 3

\* c * 10^9 >= d * f, the product d * f taken exactly
EnoughCycles(c, d, f) ==
    LET product == MulDivMod(f, d, NS_PER_SEC)
    IN  c > product.q \/ (c = product.q /\ product.r = 0)

\* C13: CYCLES(d) is the least integer c with c * 10^9 >= d * F_CPU, and
\* NANOSECONDS(CYCLES(d)) >= d; 650 ns at 16 MHz gives 11 cycles
C13_CyclesIsCeiling ==
    op.name = "cycles" =>
        /\ EnoughCycles(op.cycles, op.time_ns, F_CPU)
        /\ op.cycles > 0 => ~EnoughCycles(op.cycles - 1, op.time_ns, F_CPU)
        /\ op.ns >= op.time_ns
        /\ (F_CPU = 16000000 /\ op.time_ns = 650) => op.cycles = 11

\* C13 witness: a duration that is not a whole number of cycles
C13_Witness ==
    /\ op.name = "cycles"
    /\ F_CPU = 16000000
    /\ op.time_ns = 650
    /\ op.cycles = 11
    /\ op.ns > 650

----------------------------------------------------------------------------
(* Reading a trace: levels, edges and durations on one line                *)

Max(S) == CHOOSE x \in S : \A y \in S : y <= x
Min(S) == CHOOSE x \in S : \A y \in S : x <= y
Larger(a, b) == IF a >= b THEN a ELSE b

\* the writes of a period to one line, as indices into the period
WritesTo(period, line) ==
    {j \in 1..Len(period) : period[j].kind = "pin" /\ period[j].line = line}

\* the level of the line before event j of the period, start being the level
\* at the start of the period
LevelBefore(period, j, line, start) ==
    LET earlier == {i \in WritesTo(period, line) : i < j}
    IN  IF earlier = {} THEN start ELSE period[Max(earlier)].value

\* the level of the line at the start of period p of the trace
StartLevel(p, line) ==
    LET written == {q \in 1..(p - 1) : WritesTo(trace[q], line) # {}}
    IN  IF written = {} THEN InitialLevel(line)
        ELSE LevelBefore(trace[Max(written)], Len(trace[Max(written)]) + 1, line, 0)

\* the writes of period p that change the line to value
Edges(p, line, value) ==
    {j \in WritesTo(trace[p], line) :
        /\ trace[p][j].value = value
        /\ LevelBefore(trace[p], j, line, StartLevel(p, line)) # value}

\* cycles of the events from..to of a period whose kind is in kinds
RECURSIVE CyclesOf(_, _, _, _)
CyclesOf(period, from, to, kinds) ==
    IF from > to THEN 0
    ELSE (IF period[from].kind \in kinds THEN period[from].cycles ELSE 0)
         + CyclesOf(period, from + 1, to, kinds)

AllKinds == {"pin", "port", "delay", "loop"}

\* period p is one high pulse of the line: one rising edge, then one falling
HighPulse(p, line) ==
    /\ Cardinality(Edges(p, line, 1)) = 1
    /\ Cardinality(Edges(p, line, 0)) = 1
    /\ Min(Edges(p, line, 1)) < Min(Edges(p, line, 0))

Rise(p, line) == Min(Edges(p, line, 1))
Fall(p, line) == Min(Edges(p, line, 0))

\* cycles from the rising to the falling edge of the pulse of period p
HighDuration(p, line) ==
    CyclesOf(trace[p], Rise(p, line) + 1, Fall(p, line), AllKinds)

\* cycles from the falling edge of period p to the rising edge of period p+1
LowDuration(p, line) ==
    CyclesOf(trace[p], Fall(p, line) + 1, Len(trace[p]), AllKinds)
    + CyclesOf(trace[p + 1], 1, Rise(p + 1, line), AllKinds)

\* cycles of the delays issued between the two edges and after the falling edge
HighDelay(p, line) ==
    CyclesOf(trace[p], Rise(p, line) + 1, Fall(p, line), {"delay"})
LowDelay(p, line) ==
    CyclesOf(trace[p], Fall(p, line) + 1, Len(trace[p]), {"delay"})

\* bit 7 - (k mod 8) of array[k div 8]
SourceBit(array, k) == (At(array, k \div 8) \div Pow2(7 - (k % 8))) % 2

\* the timing of a bit value
HighOf(x) == IF x = 1 THEN high1 ELSE high0
LowOf(x) == IF x = 1 THEN low1 ELSE low0

\* C14: OnePort sends count bytes as exactly 8 * count high pulses of the data
\* line, each a rising edge followed by a falling edge; pulse k is timed with
\* (high1, low1) if bit 7 - (k mod 8) of array[k div 8] is 1 and with
\* (high0, low0) otherwise: bytes in array order, most significant bit first
C14_OnePortPulsePerBit ==
    (op.name = "sendBytes" /\ protocol = ONE_PORT_BITBANG) =>
        /\ Len(trace) = 8 * op.count
        /\ \A p \in 1..Len(trace) :
               /\ HighPulse(p, "data")
               /\ HighDelay(p, "data")
                      = Larger(HighOf(SourceBit(op.array, p - 1)) - sbiCycles, 0)
               /\ LowDelay(p, "data")
                      = Larger(LowOf(SourceBit(op.array, p - 1)) - cbiCycles, 0)

\* C14 witness: two bytes with both bit values were sent with a timing whose
\* two profiles differ
C14_Witness ==
    /\ op.name = "sendBytes"
    /\ protocol = ONE_PORT_BITBANG
    /\ op.array = <<165, 1>>
    /\ Len(trace) = 16
    /\ high1 # high0
    /\ HighDelay(1, "data") # HighDelay(2, "data")

\* C15: with a pin toggle of 2 cycles OnePort delays high_x - 2 after the
\* rising and low_x - 2 after the falling edge, skipping a delay that is not
\* positive, so the line is high for exactly max(high_x, 2) cycles and low
\* for at least max(low_x, 2) cycles in each bit period, x the bit value
C15_OnePortDurations ==
    (op.name = "sendBytes" /\ protocol = ONE_PORT_BITBANG) =>
        \A p \in 1..Len(trace) :
            LET x == SourceBit(op.array, p - 1) IN
            /\ HighPulse(p, "data")
            /\ HighDelay(p, "data") = Larger(HighOf(x) - 2, 0)
            /\ LowDelay(p, "data") = Larger(LowOf(x) - 2, 0)
            /\ HighDuration(p, "data") = Larger(HighOf(x), 2)
            /\ p < Len(trace) => LowDuration(p, "data") >= Larger(LowOf(x), 2)

\* C15 witness: a bit whose high time is below the cost of the toggle, so
\* that its delay is skipped, followed by another bit after some loop control
C15_Witness ==
    /\ op.name = "sendBytes"
    /\ protocol = ONE_PORT_BITBANG
    /\ op.overhead > 0
    /\ Len(trace) >= 2
    /\ high0 < 2
    /\ SourceBit(op.array, 0) = 0
    /\ HighDuration(1, "data") = 2
    /\ LowDuration(1, "data") > low0

(* Two lines: what each line carries *)

TwoPortProtocols == {TWO_PORT_SPLIT_BITBANG, TWO_PORT_INTLV_BITBANG}
TwoLines == {"data", "clock"}

\* the bit a strip reads from the pulse of period p: a one if the line stays
\* high longer than a zero is held
LineBit(p, line) ==
    IF HighDuration(p, line) > Larger(high0, sbiCycles) THEN 1 ELSE 0

\* the bytes a strip on the line receives, most significant bit first
LineBytes(line) ==
    [m \in 1..(Len(trace) \div 8) |->
        LineBit(8 * m - 7, line) * 128 + LineBit(8 * m - 6, line) * 64
        + LineBit(8 * m - 5, line) * 32 + LineBit(8 * m - 4, line) * 16
        + LineBit(8 * m - 3, line) * 8 + LineBit(8 * m - 2, line) * 4
        + LineBit(8 * m - 1, line) * 2 + LineBit(8 * m, line)]

\* the pixels of parity (0 even, 1 odd) of an array of whole native pixels
PixelsOfParity(array, parity) ==
    LET numPixels == Len(array) \div stripBPP
        chosen == (numPixels + 1 - parity) \div 2
    IN  [k \in 1..(chosen * stripBPP) |->
            At(array, (2 * ((k - 1) \div stripBPP) + parity) * stripBPP
                      + ((k - 1) % stripBPP))]

\* the bytes the claim gives to each line
TwoPortShare(array, line) ==
    IF protocol = TWO_PORT_SPLIT_BITBANG
    THEN IF line = "data"
         THEN Slice(array, 0, Len(array) \div 2)
         ELSE Slice(array, Len(array) \div 2, Len(array) - (Len(array) \div 2))
    ELSE PixelsOfParity(array, IF line = "data" THEN 0 ELSE 1)

\* C16 (as claimed): under both two-port protocols, in every bit period each
\* line is high for high1 cycles for a one and for high0 cycles for a zero
\* (never less than the 2 cycles of the toggle), then low for at least the
\* matching low time, and the high time of a line is the same whatever bit
\* the other line carries in that period
C16_TwoPortIndependentTiming ==
    (op.name = "sendBytes" /\ protocol \in TwoPortProtocols) =>
        \A p \in 1..Len(trace), line \in TwoLines :
            /\ HighPulse(p, line)
            /\ HighDuration(p, line) = Larger(HighOf(LineBit(p, line)), 2)
            /\ p < Len(trace) =>
                   LowDuration(p, line) >= Larger(LowOf(LineBit(p, line)), 2)
            /\ \A q \in 1..Len(trace) :
                   LineBit(q, line) = LineBit(p, line) =>
                       HighDuration(q, line) = HighDuration(p, line)

\* C17 (as claimed): under both two-port protocols every byte of a buffer of
\* whole pixels is transmitted exactly once: Split sends the first half on
\* the data line and the second half on the second line, Interleaved the
\* even pixels on the data line and the odd pixels on the second line
C17_TwoPortEveryByteOnce ==
    (op.name = "sendBytes" /\ protocol \in TwoPortProtocols) =>
        \A line \in TwoLines : LineBytes(line) = TwoPortShare(op.array, line)

(* Eight lines: what each pin of the port carries *)

\* the three port writes of period p: all-high mask, data mask, all-low
PortWrites(p) == SelectSeq(trace[p], LAMBDA e : e.kind = "port")

\* pin k of a port value
PinOf(val, k) == (val \div Pow2(k)) % 2

ActiveLines == dataPortPin..clockPortPin

\* the period in which line k loads its first byte: iteration c = 0, b = k
FirstLoad(k) == 8 - k

\* the bits line k emits from its first load on, one per period
EmittedBits(k) ==
    IF Len(trace) < FirstLoad(k) THEN <<>>
    ELSE [n \in 1..(Len(trace) - FirstLoad(k) + 1) |->
             PinOf(PortWrites(FirstLoad(k) + n - 1)[2].value, k)]

\* the bit stream OnePort emits for the byte slice of line k
SliceBits(k) ==
    LET blockSize == eightPortBlockSize(op.count)
        slice == Slice(op.array, (k - dataPortPin) * blockSize, blockSize)
    IN  [n \in 1..(8 * blockSize) |-> SourceBit(slice, n - 1)]

\* C18 (as claimed): under EightPort every active line emits, from the
\* period of its first load on, the complete most-significant-bit-first bit
\* stream of its byte slice, all 8 bits of the last byte included
C18_EightPortLineEqualsOnePort ==
    (op.name = "sendBytes" /\ protocol = EIGHT_PORT_BITBANG) =>
        \A k \in ActiveLines : EmittedBits(k) = SliceBits(k)

\* C19: under EightPort every period makes three port writes, the last one
\* all-low; a line is low in all three writes of every period before its
\* first load (and of every period if it never loads), and the data mask
\* sets no pin the all-high mask of the same period left low
C19_EightPortRampUpLow ==
    (op.name = "sendBytes" /\ protocol = EIGHT_PORT_BITBANG) =>
        \A p \in 1..Len(trace) :
            /\ Len(PortWrites(p)) = 3
            /\ PortWrites(p)[3].value = 0
            /\ \A k \in 0..7 :
                   PinOf(PortWrites(p)[2].value, k) <= PinOf(PortWrites(p)[1].value, k)
            /\ \A k \in 0..7 :
                   (k \notin ActiveLines \/ p < FirstLoad(k)) =>
                       \A w \in 1..3 : PinOf(PortWrites(p)[w].value, k) = 0

\* C19 witness: a send on lines 2..4 in whose first period no line has loaded
\* yet, line 4 is switched on first and line 2 last, and line 2 carries a one
C19_Witness ==
    /\ op.name = "sendBytes"
    /\ protocol = EIGHT_PORT_BITBANG
    /\ dataPortPin = 2
    /\ clockPortPin = 4
    /\ Len(trace) >= 8
    /\ PortWrites(1)[1].value = 0
    /\ PortWrites(FirstLoad(4))[1].value = 16
    /\ PortWrites(FirstLoad(2))[1].value = 28
    /\ \E p \in 1..Len(trace) : PinOf(PortWrites(p)[2].value, 2) = 1

(* Strobe: clock and data *)

\* the level of the data line when the clock of period p rises
DataAtRise(p) ==
    LevelBefore(trace[p], Rise(p, "clock"), "data", StartLevel(p, "data"))

\* C20: Strobe sends count bytes with exactly 8 * count rising edges of the
\* clock line; at rising edge k the data line is bit 7 - (k mod 8) of
\* array[k div 8]; the data line is written only while the clock is low
C20_SpiClockedBits ==
    (op.name = "sendBytes" /\ protocol = SPI_BITBANG) =>
        /\ Len(trace) = 8 * op.count
        /\ \A p \in 1..Len(trace) :
               /\ Cardinality(Edges(p, "clock", 1)) = 1
               /\ DataAtRise(p) = SourceBit(op.array, p - 1)
               /\ \A j \in WritesTo(trace[p], "data") :
                      LevelBefore(trace[p], j, "clock", StartLevel(p, "clock")) = 0

\* C20 witness: two bytes with both bit values, the data line changing
\* between two rising edges
C20_Witness ==
    /\ op.name = "sendBytes"
    /\ protocol = SPI_BITBANG
    /\ op.array = <<165, 1>>
    /\ Len(trace) = 16
    /\ DataAtRise(1) = 1
    /\ DataAtRise(2) = 0
    /\ StartLevel(2, "clock") = 1

----------------------------------------------------------------------------
(* The size of a bit-packed buffer *)

\* C29: for numPixels >= 1 and bitsPerPixel in {1,2,4,8} the byte SET_PIXEL and
\* GET_PIXEL touch for a pixel index < numPixels lies inside a buffer of
\* ARRAY_SIZE(numPixels, bitsPerPixel) = ((numPixels+7) div 8) * bitsPerPixel
\* bytes, so the pixel written is the pixel read; ARRAY_SIZE(128, 2) = 32
C29_PackedAccessInsideArray ==
    op.name = "arrayPixel" =>
        /\ op.size = ((op.numPixels + 7) \div 8) * op.bitsPerPixel
        /\ Len(buffer) = op.size
        /\ op.touched < op.size
        /\ op.result = op.color
        /\ ARRAY_SIZE(128, 2) = 32

\* C29 witness: the last pixel of a buffer whose pixel count is not a
\* multiple of 8, in the last byte the pixels need
C29_Witness ==
    /\ op.name = "arrayPixel"
    /\ op.numPixels = 17
    /\ op.bitsPerPixel = 2
    /\ op.index = 16
    /\ op.touched = 4
    /\ op.size = 6
    /\ buffer[5] = 3

----------------------------------------------------------------------------
(* The packed 16-bit send and the pixel counts of the public overloads *)

\* the channel values of the 16-bit value v scaled by brightness k
ScaledChannel(v, k, c) ==
    CASE c = "r" -> ((v \div 2048) * k) % 256
      [] c = "g" -> (((v \div 32) % 64) * k) % 256
      [] c = "b" -> ((v % 32) * k) % 256

\* C23 (as claimed): the packed 16-bit send transmits, for every value v and
\* brightness k (0 taken as 1), one pixel with red = ((v >> 11) * k) mod 256,
\* green = (((v >> 5) & 63) * k) mod 256 and blue = ((v & 31) * k) mod 256
C23_Packed16ScalesChannels ==
    op.name = "sendPacked16" =>
        /\ Len(sent) = op.count
        /\ \A i \in 1..op.count, c \in {"r", "g", "b"} :
               /\ Offset(native, c) < Len(sent[i])
               /\ At(sent[i], Offset(native, c))
                      = ScaledChannel(At(op.array, i - 1),
                                      IF op.brightness = 0 THEN 1 ELSE op.brightness, c)

----------------------------------------------------------------------------
(* Protocols that are declared only *)

\* C22 (as claimed): a driver of a declared but unimplemented protocol
\* (ONE_PORT_PWM, ONE_PORT_UART, SPI_HARDWARE) does not exist, or at least its
\* sendBytes never returns from sending a non-empty array without any pin
\* activity
C22_UnimplementedProtocolRejected ==
    protocol \notin ImplementedProtocols =>
        ~(op.name = "sendBytes" /\ op.count > 0 /\ trace = <<>>)

----------------------------------------------------------------------------
(* Two drivers *)

\* C30 (as claimed): with two drivers of different non-SPI configurations,
\* under every interleaving of their begin() and end() calls, interrupts are
\* disabled whenever at least one session is open, and once both sessions
\* are closed the interrupt state is the one before the first begin()
C30_TwoDriversKeepInterruptsOff ==
    /\ (session = "open" \/ peer.session = "open") => SREG = FALSE
    /\ (session = "idle" /\ peer.session = "idle") => SREG = peer.sregIdle

----------------------------------------------------------------------------
(* The log of a caller's calls *)

\* the periods a call of a public method made: those after its marker and
\* before the marker of the next call
Segment(p) ==
    LET later == {q \in ApiCalls : q > p}
    IN  (p + 1)..((IF later = {} THEN Len(trace) + 1 ELSE Min(later)) - 1)

\* the periods of a set in which the clock line rises
ClockPulses(S) == {q \in S : Edges(q, "clock", 1) # {}}

\* the calls of a method in the log
CallsOf(name) == {p \in ApiCalls : trace[p][1].line = name}

\* the marker of a sendBytes() call
IsBytes(q) == trace[q][1].kind = "bytes"

\* every event of the period is a write to a pin
OnlyPinWrites(q) == \A j \in 1..Len(trace[q]) : trace[q][j].kind = "pin"

\* C21: under Strobe begin() emits the start frame and nothing else: 32
\* rising edges of the clock, each with the data line low, and no write
\* taking the data line high; the periods of a send are pixel bits, one
\* rising edge of the clock each, and follow a begin(); end() pulses the
\* clock with the data line at one constant level
C21_StrobeFraming ==
    protocol = SPI_BITBANG =>
        /\ \A p \in CallsOf("begin") :
               /\ Cardinality(ClockPulses(Segment(p))) = 32
               /\ \A q \in Segment(p) :
                      /\ OnlyPinWrites(q)
                      /\ \A j \in WritesTo(trace[q], "data") : trace[q][j].value = 0
                      /\ q \in ClockPulses(Segment(p)) =>
                             /\ Cardinality(Edges(q, "clock", 1)) = 1
                             /\ DataAtRise(q) = 0
                      /\ q \notin ClockPulses(Segment(p)) =>
                             WritesTo(trace[q], "clock") = {}
        /\ \A p \in CallsOf("send") :
               /\ \E b \in CallsOf("begin") :
                      /\ b < p
                      /\ \A e \in CallsOf("end") : e < b \/ p < e
               /\ \A q \in Segment(p) :
                      IsBytes(q) \/ Cardinality(Edges(q, "clock", 1)) = 1
        /\ \A p \in CallsOf("end") :
               /\ \E level \in {0, 1} :
                      \A q \in ClockPulses(Segment(p)) : DataAtRise(q) = level
               /\ \A q \in Segment(p) : OnlyPinWrites(q)

\* a session with pixels has been closed under Strobe
C21_Witness ==
    /\ protocol = SPI_BITBANG
    /\ op.name = "end"
    /\ op.before.pixelsDisplayed > 0
    /\ \E p \in CallsOf("send") : ClockPulses(Segment(p)) # {}
    /\ \E p \in CallsOf("end") : ClockPulses(Segment(p)) # {}

\* the kinds of the events of a period, in order
KindsOf(q) == [j \in 1..Len(trace[q]) |-> trace[q][j].kind]

\* the value last written to the port before period p, the constructor having
\* cleared the lines
PortBefore(p) ==
    LET written == {q \in 1..(p - 1) : PortWrites(q) # <<>>}
    IN  IF written = {} THEN 0
        ELSE PortWrites(Max(written))[Len(PortWrites(Max(written)))].value

\* every data line of the strip is low at the start of period p
DataLinesLow(p) ==
    CASE protocol = ONE_PORT_BITBANG -> StartLevel(p, "data") = 0
      [] protocol \in {TWO_PORT_SPLIT_BITBANG, TWO_PORT_INTLV_BITBANG} ->
             StartLevel(p, "data") = 0 /\ StartLevel(p, "clock") = 0
      [] protocol = EIGHT_PORT_BITBANG ->
             \A k \in ActiveLines : PinOf(PortBefore(p), k) = 0
      [] OTHER -> StartLevel(p, "data") = 0

\* C24: under the non-Strobe protocols begin() waits minMsRefresh ms, then
\* saves the interrupt flag, then disables interrupts: the wait is made with
\* the flag as the caller left it and the saved flag is the caller's; no pin
\* is written in begin(), and the data lines are low when it is called, so
\* that the lines stay low for the wait between two sessions
C24_BeginWaitsThenSavesThenDisables ==
    protocol # SPI_BITBANG =>
        /\ \A p \in CallsOf("begin") :
               /\ Segment(p) = {p + 1}
               /\ KindsOf(p + 1) = <<"wait", "save", "sreg">>
               /\ trace[p + 1][1].value >= minMsRefresh
               /\ trace[p + 1][3].value = 0
               /\ DataLinesLow(p)
        /\ op.name = "begin" =>
               /\ trace[Len(trace)][2].value = BoolToBit(op.before.SREG)
               /\ oldSREG = op.before.SREG
               /\ SREG = FALSE

\* a second session is opened with interrupts enabled, after pixels were sent
C24_Witness ==
    /\ protocol # SPI_BITBANG
    /\ op.name = "begin"
    /\ op.before.SREG
    /\ \E p \in CallsOf("send") : \E q \in Segment(p) : ~IsBytes(q)
    /\ Cardinality(CallsOf("begin")) = 2

\* the periods from..to of the log agree with those starting at other
SamePeriods(from, to, other) ==
    \A q \in from..to :
        /\ KindsOf(q) = KindsOf(other + (q - from))
        /\ trace[q] = trace[other + (q - from)]

\* the log before a draw is one session made by hand, begin(); send(); end(),
\* whose send() has the arguments the draw passes on
DrawAfterSameSession ==
    LET m == op.before.at + 1
        sends == {p \in CallsOf("send") : p < m}
        inner == {p \in CallsOf("send") : p > m}
    IN  /\ Cardinality({p \in ApiCalls : p < m}) = 3
        /\ Cardinality(sends) = 1
        /\ Cardinality(inner) = 1
        /\ \A p \in sends : \A q \in inner : trace[p] = trace[q]

\* C25: draw(count, array) leaves in the log, after its own marker, the
\* periods an earlier begin(); send(count, array); end() left, markers,
\* waits and interrupt flag changes included; when it returns its last call
\* was end(): under the non-Strobe protocols the interrupt flag is the one
\* before the call, under Strobe the pixel counter is 0
C25_DrawIsBeginSendEnd ==
    op.name \in {"draw", "drawRaw"} =>
        LET m == op.before.at + 1
        IN  /\ trace[Max(ApiCalls)][1].line = "end"
            /\ protocol # SPI_BITBANG => SREG = op.before.SREG
            /\ protocol = SPI_BITBANG => pixelsDisplayed = 0
            /\ DrawAfterSameSession =>
                   /\ Len(trace) - m = m - 1
                   /\ SamePeriods(m + 1, Len(trace), 1)

\* a draw of pixels follows the same session made by hand
C25_Witness ==
    /\ op.name \in {"draw", "drawRaw"}
    /\ DrawAfterSameSession
    /\ \E p \in CallsOf("send") : \E q \in Segment(p) : ~IsBytes(q)

\* the bits period q puts on the lines of the strip: a high pulse of a data
\* line, a rising clock under Strobe, a line switched on under EightPort
BitsIn(q) ==
    CASE protocol = ONE_PORT_BITBANG -> BoolToBit(HighPulse(q, "data"))
      [] protocol \in {TWO_PORT_SPLIT_BITBANG, TWO_PORT_INTLV_BITBANG} ->
             BoolToBit(HighPulse(q, "data")) + BoolToBit(HighPulse(q, "clock"))
      [] protocol = EIGHT_PORT_BITBANG ->
             IF PortWrites(q) = <<>> THEN 0
             ELSE Cardinality({k \in ActiveLines : PinOf(PortWrites(q)[1].value, k) = 1})
      [] OTHER -> Cardinality(Edges(q, "clock", 1))

\* the periods of the send calls made from period m on, and the bits they put
\* on the lines
SendPeriods(m) == UNION {Segment(p) : p \in {c \in CallsOf("send") : c >= m}}
BitsSent(m) ==
    Cardinality({pair \in SendPeriods(m) \X (1..8) : pair[2] <= BitsIn(pair[1])})

\* the bytes handed to sendBytes() from period m on
BytesSent(m) ==
    LET marks == {q \in SendPeriods(m) : IsBytes(q)}
    IN  UNION {{<<q, j>> : j \in 1..Len(trace[q][1].value)} : q \in marks}

\* C26 (as claimed): under every implemented protocol grey(count, value),
\* and clear(count) with value 0, makes one begin(), then its sends, then one
\* end(), and transmits count pixels of the native format's bytes per pixel:
\* 8 * count * sizeof(pixelClass) bits reach the lines, from bytes all equal
\* to value
C26_ClearSendsCountPixels ==
    op.name \in {"grey", "clear"} =>
        LET m == op.before.at + 1
            calls == {p \in ApiCalls : p > m}
        IN  /\ trace[Min(calls)][1].line = "begin"
            /\ trace[Max(calls)][1].line = "end"
            /\ \A p \in calls : p \notin {Min(calls), Max(calls)} => trace[p][1].line = "send"
            /\ Cardinality(calls) = op.count + 2
            /\ Cardinality(BytesSent(m)) = op.count * SizeOf(native)
            /\ \A pair \in BytesSent(m) : trace[pair[1]][1].value[pair[2]] = op.value
            /\ BitsSent(m) = 8 * op.count * SizeOf(native)

\* C27 (as claimed): for every public send and draw overload, the one taking
\* a uint8_t array included, count is a number of pixels and exactly count
\* pixels are transmitted: count * sizeof(pixelClass) bytes go to the bit
\* generator
C27_CountIsPixels ==
    op.name \in {"send", "sendRaw", "draw", "drawRaw"} =>
        Cardinality(BytesSent(op.before.at + 1)) = op.count * SizeOf(native)

\* the call before the last one in the log
PreviousCall == Max({p \in ApiCalls : p < op.before.at + 1})

\* the last two calls are send calls of arrays of one format, the first of
\* them the first call of its session and its array count pixels long
TwoSends ==
    /\ op.name = "send"
    /\ Cardinality(ApiCalls) >= 3
    /\ trace[PreviousCall][1].line = "send"
    /\ trace[PreviousCall][1].value[1] = op.src
    /\ Len(trace[PreviousCall][1].value[3]) = trace[PreviousCall][1].value[2] * SizeOf(op.src)
    /\ trace[PreviousCall - 1][1].kind # "bytes"
    /\ trace[Max({p \in ApiCalls : p < PreviousCall})][1].line = "begin"

\* the bit periods from period m on, in order
BitPeriodsFrom(m) ==
    SelectSeq([i \in 1..(Len(trace) - m + 1) |-> m + i - 1],
              LAMBDA q : trace[q][1].kind \notin {"call", "bytes"})

\* the bit a strip reads on the data line in period q
DataBit(q) == IF protocol = SPI_BITBANG THEN DataAtRise(q) ELSE LineBit(q, "data")

\* the bits of send(n1 + n2, A o B) for the two send calls
JoinedBits ==
    LET first == trace[PreviousCall][1].value
        bytes == Flatten(TypedSendCalls(op.src, first[2] + op.count,
                                        first[3] \o op.array))
    IN  [k \in 1..(8 * Len(bytes)) |-> SourceBit(bytes, k - 1)]

\* C28 (as claimed): in one session under OnePort or Strobe, send(n1, A)
\* followed by send(n2, B) puts on the data line the bits send(n1 + n2, A o B)
\* puts there, and under Strobe leaves the pixel counter, hence the length of
\* the end frame, as the single call does
C28_SendsConcatenate ==
    (TwoSends /\ protocol \in {ONE_PORT_BITBANG, SPI_BITBANG}) =>
        LET periods == BitPeriodsFrom(PreviousCall)
        IN  /\ Len(periods) = Len(JoinedBits)
            /\ \A k \in 1..Len(periods) : DataBit(periods[k]) = JoinedBits[k]
            /\ pixelsDisplayed = CountPixels(0, trace[PreviousCall][1].value[2] + op.count)
            /\ EndFrameCount(pixelsDisplayed)
                   = EndFrameCount(CountPixels(0, trace[PreviousCall][1].value[2] + op.count))

\* the bit periods of the call whose marker is period p, in order
BitPeriodsOf(p) ==
    SelectSeq([i \in 1..Cardinality(Segment(p)) |-> p + i], LAMBDA q : ~IsBytes(q))

\* what the lines of the strip carry in bit period q: the bit of every line,
\* and under EightPort 2 for a line that is not switched on
PeriodBits(q) ==
    CASE protocol = ONE_PORT_BITBANG -> <<LineBit(q, "data")>>
      [] protocol \in {TWO_PORT_SPLIT_BITBANG, TWO_PORT_INTLV_BITBANG} ->
             <<LineBit(q, "data"), LineBit(q, "clock")>>
      [] protocol = EIGHT_PORT_BITBANG ->
             [j \in 1..8 |-> IF PinOf(PortWrites(q)[1].value, j - 1) = 1
                             THEN PinOf(PortWrites(q)[2].value, j - 1) ELSE 2]
      [] OTHER -> <<DataAtRise(q)>>

\* C31 (as claimed): under every implemented protocol, a send of n pixels of
\* another format puts on each line the bit stream the send of the n
\* converted pixels as one array of the native format puts there
C31_ConvertedAsNative ==
    (op.name = "send" /\ Cardinality(SendCalls) = 2) =>
        LET converted == BitPeriodsOf(Min(SendCalls))
            asNative == BitPeriodsOf(Max(SendCalls))
        IN  /\ Len(converted) = Len(asNative)
            /\ \A i \in 1..Len(converted) :
                   PeriodBits(converted[i]) = PeriodBits(asNative[i])

\* C32 (as claimed): twoPortSoftwareSendBytes(count, array) with count a
\* whole number of pixels, odd or even, reads only array[0 .. count-1]
C32_TwoPortReadsInsideArray ==
    (op.name = "sendBytes" /\ protocol \in TwoPortProtocols
     /\ op.count % stripBPP = 0) =>
        \A index \in twoPortReads(op.count) : index >= 0 /\ index < op.count

\* the indices line b reads
LineReads(b) == {pair[2] : pair \in {r \in eightPortReads(op.count) : r[1] = b}}

\* C33: eightPortSoftwareSendBytes(count, array) reads only array[0 .. count-1]
\* and only for the lines dataPortPin .. clockPortPin; the slices two lines
\* read are disjoint and each has (count div lines div bytesPerPixel) *
\* bytesPerPixel bytes
C33_EightPortSlices ==
    (op.name = "sendBytes" /\ protocol = EIGHT_PORT_BITBANG) =>
        /\ \A r \in eightPortReads(op.count) :
               r[1] \in ActiveLines /\ r[2] >= 0 /\ r[2] < op.count
        /\ \A b \in ActiveLines :
               Cardinality(LineReads(b))
                   = ((op.count \div Cardinality(ActiveLines)) \div stripBPP) * stripBPP
        /\ \A b1 \in ActiveLines, b2 \in ActiveLines :
               b1 # b2 => LineReads(b1) \cap LineReads(b2) = {}

\* three lines that do not start at pin 0 each read a slice, a byte to spare
C33_Witness ==
    /\ op.name = "sendBytes"
    /\ protocol = EIGHT_PORT_BITBANG
    /\ dataPortPin = 2
    /\ clockPortPin = 4
    /\ op.count = 3 * eightPortBlockSize(op.count) + 1
    /\ LineReads(4) # {}

\* C34: under EightPort every port write of every bit period writes the pins
\* outside dataPortPin .. clockPortPin low
C34_EightPortOtherPinsLow ==
    (op.name = "sendBytes" /\ protocol = EIGHT_PORT_BITBANG) =>
        \A p \in 1..Len(trace) :
            \A w \in 1..Len(PortWrites(p)) :
                \A k \in (0..7) \ ActiveLines : PinOf(PortWrites(p)[w].value, k) = 0

\* lines 2 to 4 have all been switched on and carry a 1 bit
C34_Witness ==
    /\ op.name = "sendBytes"
    /\ protocol = EIGHT_PORT_BITBANG
    /\ dataPortPin = 2
    /\ clockPortPin = 4
    /\ \E p \in 1..Len(trace) :
           PortWrites(p)[1].value = 28 /\ PortWrites(p)[2].value # 0

OneWireProtocols ==
    {ONE_PORT_BITBANG, TWO_PORT_SPLIT_BITBANG, TWO_PORT_INTLV_BITBANG,
     EIGHT_PORT_BITBANG}

\* C35: under the 1-wire protocols every data line is low after construction,
\* at the start of every bit period and when sendBytes() returns
C35_IdleLow ==
    (protocol \in OneWireProtocols /\ op.name \in {"init", "sendBytes"}) =>
        \A p \in 1..(Len(trace) + 1) : DataLinesLow(p)

\* bytes with 1 bits have been sent on one line and on several
C35_Witness ==
    /\ op.name = "sendBytes"
    /\ protocol \in {ONE_PORT_BITBANG, EIGHT_PORT_BITBANG}
    /\ op.count > 0
    /\ Len(trace) >= 8
    /\ \E k \in 1..op.count : op.array[k] = 255

\* C36: under the non-Strobe protocols no call of begin, send, end, draw,
\* grey or clear changes the pixel counter, which is 0; under Strobe no call
\* changes the interrupt flag or the saved flag
C36_SessionStateExclusive ==
    [][/\ protocol # SPI_BITBANG => (pixelsDisplayed = 0 /\ pixelsDisplayed' = 0)
       /\ protocol = SPI_BITBANG => (SREG' = SREG /\ oldSREG' = oldSREG)]_vars

\* pixels were sent in a session under a non-Strobe protocol, which had
\* changed the interrupt flag
C36_Witness ==
    /\ protocol # SPI_BITBANG
    /\ op.name \in {"send", "sendRaw"}
    /\ sentSinceEnd > 0
    /\ sregAtBegin
    /\ ~SREG

C38_Packed16ExtraChannelDefaults ==
    op.name = "sendPacked16" =>
        \A i \in 1..Len(sent) :
            /\ HasWhite(native) =>
                   /\ Offset(native, "w") < Len(sent[i])
                   /\ At(sent[i], Offset(native, "w")) = 0
            /\ HasBrightness(native) =>
                   /\ Offset(native, "h") < Len(sent[i])
                   /\ At(sent[i], Offset(native, "h")) = 255
            /\ Offset(native, "b") < Len(sent[i])
            /\ At(sent[i], Offset(native, "b"))
                   = ScaledChannel(At(op.array, i - 1),
                                   IF op.brightness = 0 THEN 1 ELSE op.brightness, "b")

====
